---------------------------- MODULE Spec2Model ----------------------------
(***************************************************************************)
(* Schema model of the drizzle-sample-schema fixtures.                     *)
(*                                                                         *)
(* The repository holds declarative schema fixtures only (tables, columns, *)
(* keys, indexes, checks, foreign keys and relations, for PostgreSQL and   *)
(* MySQL).  The fixtures are transcribed below as records, declaration by  *)
(* declaration.  The Schema Builder and the Whole-Schema Validator that    *)
(* consume such declarations (spec.md, sections 3, 4 and 7) have no code   *)
(* in the repository; they are modelled from the specification.            *)
(*                                                                         *)
(* A caller either makes arbitrary calls with inputs drawn from small sets *)
(* built around three of the fixture tables (fixture = NoFixture), or      *)
(* loads one fixture file: its namespaces, then its tables, then its       *)
(* foreign keys, then its relations, in file order, and then finalizes     *)
(* (the two-phase construction of spec.md section 9).                      *)
(***************************************************************************)
EXTENDS Integers, Sequences, FiniteSets, Bags, TLC

\* The namespace of a table declared with pgTable/mysqlTable, i.e. without a
\* pgSchema/mysqlSchema handle.
DefaultNamespace == "(default)"

\* The relationName of a relation declared without one.
NoRelationName == "(none)"


(***************************************************************************)
(* Variants of fixture declarations.  Each differs from the declaration it *)
(* is named after in the one place its comment gives; the properties below *)
(* are required to tell the declaration from its variant.                  *)
(***************************************************************************)
\* auth.sessions with user_id referencing users.password_hash, which is no key of auth.users
authSessions_referencingPasswordHash ==
  [ns |-> "auth", name |-> "sessions",
   columns |-> <<
       [name |-> "id", notNull |-> FALSE],
       [name |-> "user_id", notNull |-> TRUE],
       [name |-> "token", notNull |-> TRUE],
       [name |-> "expires_at", notNull |-> TRUE],
       [name |-> "ip_address", notNull |-> FALSE],
       [name |-> "user_agent", notNull |-> FALSE],
       [name |-> "is_active", notNull |-> TRUE],
       [name |-> "created_at", notNull |-> TRUE] >>,
   primaryKey |-> <<"id">>,
   uniques |-> {[name |-> "sessions_token_unique", columns |-> <<"token">>]},
   indexes |-> {[name |-> "auth_sessions_user_id_idx", columns |-> <<"user_id">>, unique |-> FALSE, where |-> {}],
       [name |-> "auth_sessions_token_idx", columns |-> <<"token">>, unique |-> TRUE, where |-> {}],
       [name |-> "auth_sessions_active_idx", columns |-> <<"user_id", "expires_at">>, unique |-> FALSE, where |-> {"expires_at", "is_active"}]},
   checks |-> {[name |-> "auth_sessions_expiration_check", columns |-> {"created_at", "expires_at"}]},
   foreignKeys |-> <<[source |-> <<"auth", "sessions">>, sourceColumns |-> <<"user_id">>, target |-> <<"auth", "users">>, targetColumns |-> <<"password_hash">>,
        onDelete |-> "cascade", onUpdate |-> "cascade"]>>]

\* analytics.page_views with user_id declared NOT NULL
analyticsPageViews_userIdNotNull ==
  [ns |-> "analytics", name |-> "page_views",
   columns |-> <<
       [name |-> "id", notNull |-> FALSE],
       [name |-> "user_id", notNull |-> TRUE],
       [name |-> "session_id", notNull |-> FALSE],
       [name |-> "url", notNull |-> TRUE],
       [name |-> "referrer", notNull |-> FALSE],
       [name |-> "user_agent", notNull |-> FALSE],
       [name |-> "ip_address", notNull |-> FALSE],
       [name |-> "country_code", notNull |-> FALSE],
       [name |-> "duration", notNull |-> FALSE],
       [name |-> "viewed_at", notNull |-> TRUE] >>,
   primaryKey |-> <<"id">>,
   uniques |-> {},
   indexes |-> {[name |-> "analytics_page_views_user_id_idx", columns |-> <<"user_id">>, unique |-> FALSE, where |-> {}],
       [name |-> "analytics_page_views_session_id_idx", columns |-> <<"session_id">>, unique |-> FALSE, where |-> {}],
       [name |-> "analytics_page_views_url_idx", columns |-> <<"url">>, unique |-> FALSE, where |-> {}],
       [name |-> "analytics_page_views_viewed_at_idx", columns |-> <<"viewed_at">>, unique |-> FALSE, where |-> {}],
       [name |-> "analytics_page_views_country_idx", columns |-> <<"country_code">>, unique |-> FALSE, where |-> {}],
       [name |-> "analytics_page_views_url_date_idx", columns |-> <<"url", "viewed_at">>, unique |-> FALSE, where |-> {}]},
   checks |-> {},
   foreignKeys |-> <<[source |-> <<"analytics", "page_views">>, sourceColumns |-> <<"user_id">>, target |-> <<"auth", "users">>, targetColumns |-> <<"id">>,
        onDelete |-> "set null", onUpdate |-> "cascade"],
       [source |-> <<"analytics", "page_views">>, sourceColumns |-> <<"session_id">>, target |-> <<"auth", "sessions">>, targetColumns |-> <<"id">>,
        onDelete |-> "set null", onUpdate |-> "cascade"]>>]

\* project_tasks with a single foreign column for its two columns
projectTasks_oneForeignColumn ==
  [ns |-> DefaultNamespace, name |-> "project_tasks",
   columns |-> <<
       [name |-> "project_id", notNull |-> TRUE],
       [name |-> "user_id", notNull |-> TRUE],
       [name |-> "task_id", notNull |-> TRUE] >>,
   primaryKey |-> <<>>,
   uniques |-> {},
   indexes |-> {},
   checks |-> {},
   foreignKeys |-> <<[source |-> <<DefaultNamespace, "project_tasks">>, sourceColumns |-> <<"project_id", "user_id">>, target |-> <<DefaultNamespace, "project_users">>, targetColumns |-> <<"project_id">>,
        onDelete |-> "no action", onUpdate |-> "no action"]>>]

\* sensor_data with device_id alone as its primary key
sensorData_keyedByDevice ==
  [ns |-> DefaultNamespace, name |-> "sensor_data",
   columns |-> <<
       [name |-> "device_id", notNull |-> TRUE],
       [name |-> "timestamp", notNull |-> TRUE],
       [name |-> "temperature", notNull |-> FALSE],
       [name |-> "humidity", notNull |-> FALSE],
       [name |-> "battery_level", notNull |-> FALSE] >>,
   primaryKey |-> <<"device_id">>,
   uniques |-> {},
   indexes |-> {},
   checks |-> {},
   foreignKeys |-> <<>>]

\* userRolesRelations with assignedByUser tagged
userRolesRelations_taggedAssigner ==
  << [name |-> "user", from |-> <<DefaultNamespace, "user_roles">>, to |-> <<DefaultNamespace, "users">>, cardinality |-> "many-to-one", relationName |-> NoRelationName,
      fields |-> <<"user_id">>, references |-> <<"id">>],
     [name |-> "role", from |-> <<DefaultNamespace, "user_roles">>, to |-> <<DefaultNamespace, "roles">>, cardinality |-> "many-to-one", relationName |-> NoRelationName,
      fields |-> <<"role_id">>, references |-> <<"id">>],
     [name |-> "assignedByUser", from |-> <<DefaultNamespace, "user_roles">>, to |-> <<DefaultNamespace, "users">>, cardinality |-> "many-to-one", relationName |-> "AssignedBy",
      fields |-> <<"assigned_by">>, references |-> <<"id">>] >>

\* publicProjectsRelations with manager tagged ProjectOwner as owner is
publicProjectsRelations_oneTag ==
  << [name |-> "owner", from |-> <<"public", "projects">>, to |-> <<"auth", "users">>, cardinality |-> "many-to-one", relationName |-> "ProjectOwner",
      fields |-> <<"owner_id">>, references |-> <<"id">>],
     [name |-> "manager", from |-> <<"public", "projects">>, to |-> <<"auth", "users">>, cardinality |-> "many-to-one", relationName |-> "ProjectOwner",
      fields |-> <<"manager_id">>, references |-> <<"id">>] >>

\* publicDepartmentsRelations with children under a tag parent does not use
publicDepartmentsRelations_otherTag ==
  << [name |-> "parent", from |-> <<"public", "departments">>, to |-> <<"public", "departments">>, cardinality |-> "many-to-one", relationName |-> "DepartmentHierarchy",
      fields |-> <<"parent_department_id">>, references |-> <<"id">>],
     [name |-> "children", from |-> <<"public", "departments">>, to |-> <<"public", "departments">>, cardinality |-> "one-to-many", relationName |-> "DepartmentTree",
      fields |-> <<>>, references |-> <<>>],
     [name |-> "employees", from |-> <<"public", "departments">>, to |-> <<"public", "employees">>, cardinality |-> "one-to-many", relationName |-> NoRelationName,
      fields |-> <<>>, references |-> <<>>] >>

\* publicEmployeesRelations with manager untagged
publicEmployeesRelations_untaggedManager ==
  << [name |-> "user", from |-> <<"public", "employees">>, to |-> <<"auth", "users">>, cardinality |-> "many-to-one", relationName |-> NoRelationName,
      fields |-> <<"user_id">>, references |-> <<"id">>],
     [name |-> "manager", from |-> <<"public", "employees">>, to |-> <<"public", "employees">>, cardinality |-> "many-to-one", relationName |-> NoRelationName,
      fields |-> <<"manager_id">>, references |-> <<"id">>],
     [name |-> "subordinates", from |-> <<"public", "employees">>, to |-> <<"public", "employees">>, cardinality |-> "one-to-many", relationName |-> "EmployeeHierarchy",
      fields |-> <<>>, references |-> <<>>] >>

\* public.bookings with its price check naming a column the table does not have
publicBookings_unknownCheckColumn ==
  [ns |-> "public", name |-> "bookings",
   columns |-> <<
       [name |-> "id", notNull |-> FALSE],
       [name |-> "event_id", notNull |-> TRUE],
       [name |-> "user_id", notNull |-> TRUE],
       [name |-> "booking_start_time", notNull |-> TRUE],
       [name |-> "booking_end_time", notNull |-> TRUE],
       [name |-> "participant_count", notNull |-> TRUE],
       [name |-> "total_price", notNull |-> TRUE],
       [name |-> "status", notNull |-> TRUE],
       [name |-> "notes", notNull |-> FALSE],
       [name |-> "created_at", notNull |-> TRUE],
       [name |-> "updated_at", notNull |-> TRUE] >>,
   primaryKey |-> <<"id">>,
   uniques |-> {[name |-> "bookings_event_user_time_unique", columns |-> <<"event_id", "user_id", "booking_start_time">>]},
   indexes |-> {[name |-> "bookings_event_user_idx", columns |-> <<"event_id", "user_id">>, unique |-> FALSE, where |-> {}],
       [name |-> "bookings_user_idx", columns |-> <<"user_id">>, unique |-> FALSE, where |-> {}],
       [name |-> "bookings_time_range_idx", columns |-> <<"booking_start_time", "booking_end_time">>, unique |-> FALSE, where |-> {}],
       [name |-> "bookings_status_idx", columns |-> <<"status">>, unique |-> FALSE, where |-> {}]},
   checks |-> {[name |-> "bookings_participant_count_check", columns |-> {"participant_count"}],
       [name |-> "bookings_total_price_check", columns |-> {"price"}],
       [name |-> "bookings_time_range_check", columns |-> {"booking_end_time", "booking_start_time"}]},
   foreignKeys |-> <<[source |-> <<"public", "bookings">>, sourceColumns |-> <<"event_id">>, target |-> <<"public", "events">>, targetColumns |-> <<"id">>,
        onDelete |-> "cascade", onUpdate |-> "cascade"],
       [source |-> <<"public", "bookings">>, sourceColumns |-> <<"user_id">>, target |-> <<"auth", "users">>, targetColumns |-> <<"id">>,
        onDelete |-> "restrict", onUpdate |-> "cascade"]>>]

\* the second user_roles declaration under another name
userRoles_2_renamed ==
  [ns |-> DefaultNamespace, name |-> "user_roles_v2",
   columns |-> <<
       [name |-> "user_id", notNull |-> TRUE],
       [name |-> "role_id", notNull |-> TRUE],
       [name |-> "assigned_at", notNull |-> FALSE],
       [name |-> "assigned_by", notNull |-> FALSE] >>,
   primaryKey |-> <<"user_id", "role_id">>,
   uniques |-> {},
   indexes |-> {},
   checks |-> {},
   foreignKeys |-> <<>>]

\* public.events with organizer_id referencing users of its own namespace
publicEvents_organizerInPublic ==
  [ns |-> "public", name |-> "events",
   columns |-> <<
       [name |-> "id", notNull |-> FALSE],
       [name |-> "title", notNull |-> TRUE],
       [name |-> "description", notNull |-> FALSE],
       [name |-> "start_date", notNull |-> TRUE],
       [name |-> "end_date", notNull |-> TRUE],
       [name |-> "start_time", notNull |-> FALSE],
       [name |-> "end_time", notNull |-> FALSE],
       [name |-> "min_price", notNull |-> FALSE],
       [name |-> "max_price", notNull |-> FALSE],
       [name |-> "min_participants", notNull |-> FALSE],
       [name |-> "max_participants", notNull |-> FALSE],
       [name |-> "min_age", notNull |-> FALSE],
       [name |-> "max_age", notNull |-> FALSE],
       [name |-> "location", notNull |-> FALSE],
       [name |-> "organizer_id", notNull |-> FALSE],
       [name |-> "current_participants", notNull |-> TRUE],
       [name |-> "is_public", notNull |-> TRUE],
       [name |-> "tags", notNull |-> FALSE],
       [name |-> "metadata", notNull |-> FALSE],
       [name |-> "created_at", notNull |-> TRUE],
       [name |-> "updated_at", notNull |-> TRUE] >>,
   primaryKey |-> <<"id">>,
   uniques |-> {},
   indexes |-> {[name |-> "events_date_range_idx", columns |-> <<"start_date", "end_date">>, unique |-> FALSE, where |-> {}],
       [name |-> "events_time_range_idx", columns |-> <<"start_time", "end_time">>, unique |-> FALSE, where |-> {}],
       [name |-> "events_organizer_idx", columns |-> <<"organizer_id">>, unique |-> FALSE, where |-> {}],
       [name |-> "events_public_idx", columns |-> <<"is_public">>, unique |-> FALSE, where |-> {"is_public"}],
       [name |-> "events_tags_idx", columns |-> <<"tags">>, unique |-> FALSE, where |-> {}],
       [name |-> "events_metadata_idx", columns |-> <<"metadata">>, unique |-> FALSE, where |-> {}]},
   checks |-> {[name |-> "events_participants_check", columns |-> {"current_participants", "max_participants"}],
       [name |-> "events_max_participants_check", columns |-> {"max_participants"}],
       [name |-> "events_date_range_check", columns |-> {"end_date", "start_date"}],
       [name |-> "events_time_range_check", columns |-> {"end_time", "start_time"}],
       [name |-> "events_price_range_check", columns |-> {"max_price", "min_price"}],
       [name |-> "events_age_range_check", columns |-> {"max_age", "min_age"}]},
   foreignKeys |-> <<[source |-> <<"public", "events">>, sourceColumns |-> <<"organizer_id">>, target |-> <<"public", "users">>, targetColumns |-> <<"id">>,
        onDelete |-> "restrict", onUpdate |-> "cascade"]>>]

\* userProjectPermissionsRelations with user and grantedByUser each under a tag of its own
userProjectPermissionsRelations_tagged ==
  << [name |-> "user", from |-> <<DefaultNamespace, "user_project_permissions">>, to |-> <<DefaultNamespace, "users">>, cardinality |-> "many-to-one", relationName |-> "PermissionUser",
      fields |-> <<"user_id">>, references |-> <<"id">>],
     [name |-> "project", from |-> <<DefaultNamespace, "user_project_permissions">>, to |-> <<DefaultNamespace, "projects">>, cardinality |-> "many-to-one", relationName |-> NoRelationName,
      fields |-> <<"project_id">>, references |-> <<"id">>],
     [name |-> "grantedByUser", from |-> <<DefaultNamespace, "user_project_permissions">>, to |-> <<DefaultNamespace, "users">>, cardinality |-> "many-to-one", relationName |-> "PermissionGranter",
      fields |-> <<"granted_by">>, references |-> <<"id">>] >>

\* public.employees with a plain index on employee_number instead of the unique index
publicEmployees_plainNumberIndex ==
  [ns |-> "public", name |-> "employees",
   columns |-> <<
       [name |-> "id", notNull |-> FALSE],
       [name |-> "user_id", notNull |-> TRUE],
       [name |-> "employee_number", notNull |-> TRUE],
       [name |-> "department_id", notNull |-> FALSE],
       [name |-> "manager_id", notNull |-> FALSE],
       [name |-> "position", notNull |-> FALSE],
       [name |-> "salary", notNull |-> FALSE],
       [name |-> "hire_date", notNull |-> TRUE],
       [name |-> "termination_date", notNull |-> FALSE],
       [name |-> "is_active", notNull |-> TRUE] >>,
   primaryKey |-> <<"id">>,
   uniques |-> {[name |-> "employees_user_id_unique", columns |-> <<"user_id">>], [name |-> "employees_employee_number_unique", columns |-> <<"employee_number">>]},
   indexes |-> {[name |-> "employees_user_id_idx", columns |-> <<"user_id">>, unique |-> TRUE, where |-> {}],
       [name |-> "employees_employee_number_idx", columns |-> <<"employee_number">>, unique |-> FALSE, where |-> {}],
       [name |-> "employees_department_idx", columns |-> <<"department_id">>, unique |-> FALSE, where |-> {}],
       [name |-> "employees_manager_idx", columns |-> <<"manager_id">>, unique |-> FALSE, where |-> {}],
       [name |-> "employees_active_idx", columns |-> <<"is_active">>, unique |-> FALSE, where |-> {"is_active"}]},
   checks |-> {[name |-> "employees_salary_check", columns |-> {"salary"}],
       [name |-> "employees_dates_check", columns |-> {"hire_date", "termination_date"}]},
   foreignKeys |-> <<[source |-> <<"public", "employees">>, sourceColumns |-> <<"user_id">>, target |-> <<"auth", "users">>, targetColumns |-> <<"id">>,
        onDelete |-> "cascade", onUpdate |-> "cascade"]>>]

\* user_project_permissions keyed by (project_id, user_id, permission)
userProjectPermissions_projectFirst ==
  [ns |-> DefaultNamespace, name |-> "user_project_permissions",
   columns |-> <<
       [name |-> "user_id", notNull |-> TRUE],
       [name |-> "project_id", notNull |-> TRUE],
       [name |-> "permission", notNull |-> TRUE],
       [name |-> "granted_at", notNull |-> FALSE],
       [name |-> "granted_by", notNull |-> FALSE] >>,
   primaryKey |-> <<"project_id", "user_id", "permission">>,
   uniques |-> {},
   indexes |-> {},
   checks |-> {},
   foreignKeys |-> <<>>]

\* user_project_permissions with user_id a second time at the end of its key
userProjectPermissions_userTwice ==
  [ns |-> DefaultNamespace, name |-> "user_project_permissions",
   columns |-> <<
       [name |-> "user_id", notNull |-> TRUE],
       [name |-> "project_id", notNull |-> TRUE],
       [name |-> "permission", notNull |-> TRUE],
       [name |-> "granted_at", notNull |-> FALSE],
       [name |-> "granted_by", notNull |-> FALSE] >>,
   primaryKey |-> <<"user_id", "project_id", "permission", "user_id">>,
   uniques |-> {},
   indexes |-> {},
   checks |-> {},
   foreignKeys |-> <<[source |-> <<DefaultNamespace, "user_project_permissions">>, sourceColumns |-> <<"user_id">>, target |-> <<DefaultNamespace, "users">>, targetColumns |-> <<"id">>,
        onDelete |-> "cascade", onUpdate |-> "no action"],
       [source |-> <<DefaultNamespace, "user_project_permissions">>, sourceColumns |-> <<"project_id">>, target |-> <<DefaultNamespace, "projects">>, targetColumns |-> <<"id">>,
        onDelete |-> "cascade", onUpdate |-> "no action"],
       [source |-> <<DefaultNamespace, "user_project_permissions">>, sourceColumns |-> <<"granted_by">>, target |-> <<DefaultNamespace, "users">>, targetColumns |-> <<"id">>,
        onDelete |-> "set null", onUpdate |-> "no action"]>>]

\* user_roles with assigned_by as a third column of its key
userRoles_keyedWithAssigner ==
  [ns |-> DefaultNamespace, name |-> "user_roles",
   columns |-> <<
       [name |-> "user_id", notNull |-> TRUE],
       [name |-> "role_id", notNull |-> TRUE],
       [name |-> "assigned_at", notNull |-> FALSE],
       [name |-> "assigned_by", notNull |-> FALSE] >>,
   primaryKey |-> <<"user_id", "role_id", "assigned_by">>,
   uniques |-> {},
   indexes |-> {},
   checks |-> {},
   foreignKeys |-> <<[source |-> <<DefaultNamespace, "user_roles">>, sourceColumns |-> <<"user_id">>, target |-> <<DefaultNamespace, "users">>, targetColumns |-> <<"id">>,
        onDelete |-> "cascade", onUpdate |-> "no action"],
       [source |-> <<DefaultNamespace, "user_roles">>, sourceColumns |-> <<"role_id">>, target |-> <<DefaultNamespace, "roles">>, targetColumns |-> <<"id">>,
        onDelete |-> "cascade", onUpdate |-> "no action"],
       [source |-> <<DefaultNamespace, "user_roles">>, sourceColumns |-> <<"assigned_by">>, target |-> <<DefaultNamespace, "users">>, targetColumns |-> <<"id">>,
        onDelete |-> "set null", onUpdate |-> "no action"]>>]

\* public.order with its column user renamed to user_id and the index still on user
publicOrder_userColumnRenamed ==
  [ns |-> "public", name |-> "order",
   columns |-> <<
       [name |-> "id", notNull |-> FALSE],
       [name |-> "user_id", notNull |-> FALSE],
       [name |-> "group", notNull |-> FALSE],
       [name |-> "table", notNull |-> FALSE] >>,
   primaryKey |-> <<"id">>,
   uniques |-> {},
   indexes |-> {[name |-> "order_user_idx", columns |-> <<"user">>, unique |-> FALSE, where |-> {}]},
   checks |-> {},
   foreignKeys |-> <<>>]

\* users declared under the name members, so that nothing user_roles references is declared
users_declaredAsMembers ==
  [ns |-> DefaultNamespace, name |-> "members",
   columns |-> <<
       [name |-> "id", notNull |-> FALSE],
       [name |-> "name", notNull |-> TRUE],
       [name |-> "email", notNull |-> TRUE],
       [name |-> "created_at", notNull |-> FALSE] >>,
   primaryKey |-> <<"id">>,
   uniques |-> {},
   indexes |-> {},
   checks |-> {},
   foreignKeys |-> <<>>]

\* manager_id declared NOT NULL although its foreign key sets it null
publicProjects_managerRequired ==
  [ns |-> "public", name |-> "projects",
   columns |-> <<
       [name |-> "id", notNull |-> FALSE],
       [name |-> "name", notNull |-> TRUE],
       [name |-> "owner_id", notNull |-> TRUE],
       [name |-> "manager_id", notNull |-> TRUE],
       [name |-> "status", notNull |-> TRUE],
       [name |-> "budget", notNull |-> FALSE],
       [name |-> "start_date", notNull |-> FALSE],
       [name |-> "end_date", notNull |-> FALSE],
       [name |-> "created_at", notNull |-> TRUE],
       [name |-> "updated_at", notNull |-> TRUE] >>,
   primaryKey |-> <<"id">>,
   uniques |-> {},
   indexes |-> {[name |-> "projects_owner_idx", columns |-> <<"owner_id">>, unique |-> FALSE, where |-> {}],
       [name |-> "projects_manager_idx", columns |-> <<"manager_id">>, unique |-> FALSE, where |-> {}],
       [name |-> "projects_status_idx", columns |-> <<"status">>, unique |-> FALSE, where |-> {}]},
   checks |-> {[name |-> "projects_date_range_check", columns |-> {"end_date", "start_date"}],
       [name |-> "projects_budget_check", columns |-> {"budget"}]},
   foreignKeys |-> <<[source |-> <<"public", "projects">>, sourceColumns |-> <<"owner_id">>, target |-> <<"auth", "users">>, targetColumns |-> <<"id">>,
        onDelete |-> "restrict", onUpdate |-> "cascade"],
       [source |-> <<"public", "projects">>, sourceColumns |-> <<"manager_id">>, target |-> <<"auth", "users">>, targetColumns |-> <<"id">>,
        onDelete |-> "set null", onUpdate |-> "cascade"]>>]

\* admin.audit_logs with its foreign key to auth.users cascading on delete
adminAuditLogs_cascadingDelete ==
  [ns |-> "admin", name |-> "audit_logs",
   columns |-> <<
       [name |-> "id", notNull |-> FALSE],
       [name |-> "user_id", notNull |-> FALSE],
       [name |-> "action", notNull |-> TRUE],
       [name |-> "table_name", notNull |-> FALSE],
       [name |-> "record_id", notNull |-> FALSE],
       [name |-> "old_values", notNull |-> FALSE],
       [name |-> "new_values", notNull |-> FALSE],
       [name |-> "ip_address", notNull |-> FALSE],
       [name |-> "user_agent", notNull |-> FALSE],
       [name |-> "performed_at", notNull |-> TRUE] >>,
   primaryKey |-> <<"id">>,
   uniques |-> {},
   indexes |-> {[name |-> "admin_audit_logs_user_id_idx", columns |-> <<"user_id">>, unique |-> FALSE, where |-> {}],
       [name |-> "admin_audit_logs_action_idx", columns |-> <<"action">>, unique |-> FALSE, where |-> {}],
       [name |-> "admin_audit_logs_table_name_idx", columns |-> <<"table_name">>, unique |-> FALSE, where |-> {}],
       [name |-> "admin_audit_logs_performed_at_idx", columns |-> <<"performed_at">>, unique |-> FALSE, where |-> {}],
       [name |-> "admin_audit_logs_table_record_idx", columns |-> <<"table_name", "record_id">>, unique |-> FALSE, where |-> {}]},
   checks |-> {},
   foreignKeys |-> <<[source |-> <<"admin", "audit_logs">>, sourceColumns |-> <<"user_id">>, target |-> <<"auth", "users">>, targetColumns |-> <<"id">>,
        onDelete |-> "cascade", onUpdate |-> "cascade"]>>]

\* the first declaration of user_roles under another name, so that the second is accepted
userRoles_firstUnderOtherName ==
  [ns |-> DefaultNamespace, name |-> "user_roles_v1",
   columns |-> <<
       [name |-> "user_id", notNull |-> TRUE],
       [name |-> "role_id", notNull |-> TRUE],
       [name |-> "assigned_at", notNull |-> FALSE],
       [name |-> "assigned_by", notNull |-> FALSE] >>,
   primaryKey |-> <<"user_id", "role_id">>,
   uniques |-> {},
   indexes |-> {},
   checks |-> {},
   foreignKeys |-> <<>>]


(***************************************************************************)
(* Variants of rules of the model, told from the rules by the properties   *)
(* in the same way.                                                        *)
(***************************************************************************)
\* The blocking kinds without the pairing of relation names.
BlockingKinds_withoutPairing ==
  {"ForeignKeyTargetNotUnique", "UnknownColumnReference", "SelfReferenceRequiresRelationName"}
\* ---- src/drizzle/postgresql/composite-keys/schema.ts
\* src/drizzle/postgresql/composite-keys/schema.ts:4-13  userRoles
pgComposite_userRoles ==
  [ns |-> DefaultNamespace, name |-> "user_roles",
   columns |-> <<
       [name |-> "user_id", notNull |-> TRUE],
       [name |-> "role_id", notNull |-> TRUE],
       [name |-> "assigned_at", notNull |-> FALSE],
       [name |-> "assigned_by", notNull |-> FALSE] >>,
   primaryKey |-> <<"user_id", "role_id">>,
   uniques |-> {},
   indexes |-> {},
   checks |-> {},
   foreignKeys |-> <<>>]

\* src/drizzle/postgresql/composite-keys/schema.ts:16-26  orderItems
pgComposite_orderItems ==
  [ns |-> DefaultNamespace, name |-> "order_items",
   columns |-> <<
       [name |-> "order_id", notNull |-> TRUE],
       [name |-> "product_id", notNull |-> TRUE],
       [name |-> "quantity", notNull |-> TRUE],
       [name |-> "unit_price", notNull |-> TRUE],
       [name |-> "created_at", notNull |-> FALSE] >>,
   primaryKey |-> <<"order_id", "product_id">>,
   uniques |-> {},
   indexes |-> {},
   checks |-> {},
   foreignKeys |-> <<>>]

\* src/drizzle/postgresql/composite-keys/schema.ts:29-39  translations
pgComposite_translations ==
  [ns |-> DefaultNamespace, name |-> "translations",
   columns |-> <<
       [name |-> "entity_id", notNull |-> TRUE],
       [name |-> "language_code", notNull |-> TRUE],
       [name |-> "title", notNull |-> TRUE],
       [name |-> "description", notNull |-> FALSE],
       [name |-> "updated_at", notNull |-> FALSE] >>,
   primaryKey |-> <<"entity_id", "language_code">>,
   uniques |-> {},
   indexes |-> {},
   checks |-> {},
   foreignKeys |-> <<>>]

\* src/drizzle/postgresql/composite-keys/schema.ts:42-52  sensorData
pgComposite_sensorData ==
  [ns |-> DefaultNamespace, name |-> "sensor_data",
   columns |-> <<
       [name |-> "device_id", notNull |-> TRUE],
       [name |-> "timestamp", notNull |-> TRUE],
       [name |-> "temperature", notNull |-> FALSE],
       [name |-> "humidity", notNull |-> FALSE],
       [name |-> "battery_level", notNull |-> FALSE] >>,
   primaryKey |-> <<"device_id", "timestamp">>,
   uniques |-> {},
   indexes |-> {},
   checks |-> {},
   foreignKeys |-> <<>>]

\* src/drizzle/postgresql/composite-keys/schema.ts:55-65  userProjectPermissions
pgComposite_userProjectPermissions ==
  [ns |-> DefaultNamespace, name |-> "user_project_permissions",
   columns |-> <<
       [name |-> "user_id", notNull |-> TRUE],
       [name |-> "project_id", notNull |-> TRUE],
       [name |-> "permission", notNull |-> TRUE],
       [name |-> "granted_at", notNull |-> FALSE],
       [name |-> "granted_by", notNull |-> FALSE] >>,
   primaryKey |-> <<"user_id", "project_id", "permission">>,
   uniques |-> {},
   indexes |-> {},
   checks |-> {},
   foreignKeys |-> <<>>]

\* src/drizzle/postgresql/composite-keys/schema.ts:68-73  users
pgComposite_users ==
  [ns |-> DefaultNamespace, name |-> "users",
   columns |-> <<
       [name |-> "id", notNull |-> FALSE],
       [name |-> "name", notNull |-> TRUE],
       [name |-> "email", notNull |-> TRUE],
       [name |-> "created_at", notNull |-> FALSE] >>,
   primaryKey |-> <<"id">>,
   uniques |-> {},
   indexes |-> {},
   checks |-> {},
   foreignKeys |-> <<>>]

\* src/drizzle/postgresql/composite-keys/schema.ts:75-79  roles
pgComposite_roles ==
  [ns |-> DefaultNamespace, name |-> "roles",
   columns |-> <<
       [name |-> "id", notNull |-> FALSE],
       [name |-> "name", notNull |-> TRUE],
       [name |-> "description", notNull |-> FALSE] >>,
   primaryKey |-> <<"id">>,
   uniques |-> {},
   indexes |-> {},
   checks |-> {},
   foreignKeys |-> <<>>]

\* src/drizzle/postgresql/composite-keys/schema.ts:85-94  userRoles
pgComposite_userRoles_2 ==
  [ns |-> DefaultNamespace, name |-> "user_roles",
   columns |-> <<
       [name |-> "user_id", notNull |-> TRUE],
       [name |-> "role_id", notNull |-> TRUE],
       [name |-> "assigned_at", notNull |-> FALSE],
       [name |-> "assigned_by", notNull |-> FALSE] >>,
   primaryKey |-> <<"user_id", "role_id">>,
   uniques |-> {},
   indexes |-> {},
   checks |-> {},
   foreignKeys |-> <<>>]

\* src/drizzle/postgresql/composite-keys/schema.ts:97-107  orderItems
pgComposite_orderItems_2 ==
  [ns |-> DefaultNamespace, name |-> "order_items",
   columns |-> <<
       [name |-> "order_id", notNull |-> TRUE],
       [name |-> "product_id", notNull |-> TRUE],
       [name |-> "quantity", notNull |-> TRUE],
       [name |-> "unit_price", notNull |-> TRUE],
       [name |-> "created_at", notNull |-> FALSE] >>,
   primaryKey |-> <<"order_id", "product_id">>,
   uniques |-> {},
   indexes |-> {},
   checks |-> {},
   foreignKeys |-> <<>>]

\* src/drizzle/postgresql/composite-keys/schema.ts:110-120  translations
pgComposite_translations_2 ==
  [ns |-> DefaultNamespace, name |-> "translations",
   columns |-> <<
       [name |-> "entity_id", notNull |-> TRUE],
       [name |-> "language_code", notNull |-> TRUE],
       [name |-> "title", notNull |-> TRUE],
       [name |-> "description", notNull |-> FALSE],
       [name |-> "updated_at", notNull |-> FALSE] >>,
   primaryKey |-> <<"entity_id", "language_code">>,
   uniques |-> {},
   indexes |-> {},
   checks |-> {},
   foreignKeys |-> <<>>]

\* src/drizzle/postgresql/composite-keys/schema.ts:123-133  sensorData
pgComposite_sensorData_2 ==
  [ns |-> DefaultNamespace, name |-> "sensor_data",
   columns |-> <<
       [name |-> "device_id", notNull |-> TRUE],
       [name |-> "timestamp", notNull |-> TRUE],
       [name |-> "temperature", notNull |-> FALSE],
       [name |-> "humidity", notNull |-> FALSE],
       [name |-> "battery_level", notNull |-> FALSE] >>,
   primaryKey |-> <<"device_id", "timestamp">>,
   uniques |-> {},
   indexes |-> {},
   checks |-> {},
   foreignKeys |-> <<>>]

\* src/drizzle/postgresql/composite-keys/schema.ts:136-146  userProjectPermissions
pgComposite_userProjectPermissions_2 ==
  [ns |-> DefaultNamespace, name |-> "user_project_permissions",
   columns |-> <<
       [name |-> "user_id", notNull |-> TRUE],
       [name |-> "project_id", notNull |-> TRUE],
       [name |-> "permission", notNull |-> TRUE],
       [name |-> "granted_at", notNull |-> FALSE],
       [name |-> "granted_by", notNull |-> FALSE] >>,
   primaryKey |-> <<"user_id", "project_id", "permission">>,
   uniques |-> {},
   indexes |-> {},
   checks |-> {},
   foreignKeys |-> <<>>]

\* src/drizzle/postgresql/composite-keys/schema.ts:149-154  users
pgComposite_users_2 ==
  [ns |-> DefaultNamespace, name |-> "users",
   columns |-> <<
       [name |-> "id", notNull |-> FALSE],
       [name |-> "name", notNull |-> TRUE],
       [name |-> "email", notNull |-> TRUE],
       [name |-> "created_at", notNull |-> FALSE] >>,
   primaryKey |-> <<"id">>,
   uniques |-> {},
   indexes |-> {},
   checks |-> {},
   foreignKeys |-> <<>>]

\* src/drizzle/postgresql/composite-keys/schema.ts:156-160  roles
pgComposite_roles_2 ==
  [ns |-> DefaultNamespace, name |-> "roles",
   columns |-> <<
       [name |-> "id", notNull |-> FALSE],
       [name |-> "name", notNull |-> TRUE],
       [name |-> "description", notNull |-> FALSE] >>,
   primaryKey |-> <<"id">>,
   uniques |-> {},
   indexes |-> {},
   checks |-> {},
   foreignKeys |-> <<>>]

\* src/drizzle/postgresql/composite-keys/schema.ts:163-166  usersRelations
pgComposite_usersRelations ==
  << [name |-> "userRoles", from |-> <<DefaultNamespace, "users">>, to |-> <<DefaultNamespace, "user_roles">>, cardinality |-> "one-to-many", relationName |-> NoRelationName,
      fields |-> <<>>, references |-> <<>>],
     [name |-> "userProjectPermissions", from |-> <<DefaultNamespace, "users">>, to |-> <<DefaultNamespace, "user_project_permissions">>, cardinality |-> "one-to-many", relationName |-> NoRelationName,
      fields |-> <<>>, references |-> <<>>] >>

\* src/drizzle/postgresql/composite-keys/schema.ts:168-170  rolesRelations
pgComposite_rolesRelations ==
  << [name |-> "userRoles", from |-> <<DefaultNamespace, "roles">>, to |-> <<DefaultNamespace, "user_roles">>, cardinality |-> "one-to-many", relationName |-> NoRelationName,
      fields |-> <<>>, references |-> <<>>] >>

\* src/drizzle/postgresql/composite-keys/schema.ts:172-185  userRolesRelations
pgComposite_userRolesRelations ==
  << [name |-> "user", from |-> <<DefaultNamespace, "user_roles">>, to |-> <<DefaultNamespace, "users">>, cardinality |-> "many-to-one", relationName |-> NoRelationName,
      fields |-> <<"user_id">>, references |-> <<"id">>],
     [name |-> "role", from |-> <<DefaultNamespace, "user_roles">>, to |-> <<DefaultNamespace, "roles">>, cardinality |-> "many-to-one", relationName |-> NoRelationName,
      fields |-> <<"role_id">>, references |-> <<"id">>],
     [name |-> "assignedByUser", from |-> <<DefaultNamespace, "user_roles">>, to |-> <<DefaultNamespace, "users">>, cardinality |-> "many-to-one", relationName |-> NoRelationName,
      fields |-> <<"assigned_by">>, references |-> <<"id">>] >>

\* src/drizzle/postgresql/composite-keys/schema.ts:187-196  orderItemsRelations
pgComposite_orderItemsRelations ==
  << [name |-> "order", from |-> <<DefaultNamespace, "order_items">>, to |-> <<DefaultNamespace, "orders">>, cardinality |-> "many-to-one", relationName |-> NoRelationName,
      fields |-> <<"order_id">>, references |-> <<"id">>],
     [name |-> "product", from |-> <<DefaultNamespace, "order_items">>, to |-> <<DefaultNamespace, "products">>, cardinality |-> "many-to-one", relationName |-> NoRelationName,
      fields |-> <<"product_id">>, references |-> <<"id">>] >>

\* src/drizzle/postgresql/composite-keys/schema.ts:198-203  translationsRelations
pgComposite_translationsRelations ==
  << [name |-> "entity", from |-> <<DefaultNamespace, "translations">>, to |-> <<DefaultNamespace, "entities">>, cardinality |-> "many-to-one", relationName |-> NoRelationName,
      fields |-> <<"entity_id">>, references |-> <<"id">>] >>

\* src/drizzle/postgresql/composite-keys/schema.ts:205-210  sensorDataRelations
pgComposite_sensorDataRelations ==
  << [name |-> "device", from |-> <<DefaultNamespace, "sensor_data">>, to |-> <<DefaultNamespace, "devices">>, cardinality |-> "many-to-one", relationName |-> NoRelationName,
      fields |-> <<"device_id">>, references |-> <<"id">>] >>

\* src/drizzle/postgresql/composite-keys/schema.ts:212-225  userProjectPermissionsRelations
pgComposite_userProjectPermissionsRelations ==
  << [name |-> "user", from |-> <<DefaultNamespace, "user_project_permissions">>, to |-> <<DefaultNamespace, "users">>, cardinality |-> "many-to-one", relationName |-> NoRelationName,
      fields |-> <<"user_id">>, references |-> <<"id">>],
     [name |-> "project", from |-> <<DefaultNamespace, "user_project_permissions">>, to |-> <<DefaultNamespace, "projects">>, cardinality |-> "many-to-one", relationName |-> NoRelationName,
      fields |-> <<"project_id">>, references |-> <<"id">>],
     [name |-> "grantedByUser", from |-> <<DefaultNamespace, "user_project_permissions">>, to |-> <<DefaultNamespace, "users">>, cardinality |-> "many-to-one", relationName |-> NoRelationName,
      fields |-> <<"granted_by">>, references |-> <<"id">>] >>

\* src/drizzle/postgresql/composite-keys/schema.ts:228-233  orders
pgComposite_orders ==
  [ns |-> DefaultNamespace, name |-> "orders",
   columns |-> <<
       [name |-> "id", notNull |-> FALSE],
       [name |-> "user_id", notNull |-> TRUE],
       [name |-> "total", notNull |-> TRUE],
       [name |-> "created_at", notNull |-> FALSE] >>,
   primaryKey |-> <<"id">>,
   uniques |-> {},
   indexes |-> {},
   checks |-> {},
   foreignKeys |-> <<>>]

\* src/drizzle/postgresql/composite-keys/schema.ts:235-239  products
pgComposite_products ==
  [ns |-> DefaultNamespace, name |-> "products",
   columns |-> <<
       [name |-> "id", notNull |-> FALSE],
       [name |-> "name", notNull |-> TRUE],
       [name |-> "price", notNull |-> TRUE] >>,
   primaryKey |-> <<"id">>,
   uniques |-> {},
   indexes |-> {},
   checks |-> {},
   foreignKeys |-> <<>>]

\* src/drizzle/postgresql/composite-keys/schema.ts:241-245  entities
pgComposite_entities ==
  [ns |-> DefaultNamespace, name |-> "entities",
   columns |-> <<
       [name |-> "id", notNull |-> FALSE],
       [name |-> "type", notNull |-> TRUE],
       [name |-> "created_at", notNull |-> FALSE] >>,
   primaryKey |-> <<"id">>,
   uniques |-> {},
   indexes |-> {},
   checks |-> {},
   foreignKeys |-> <<>>]

\* src/drizzle/postgresql/composite-keys/schema.ts:247-252  devices
pgComposite_devices ==
  [ns |-> DefaultNamespace, name |-> "devices",
   columns |-> <<
       [name |-> "id", notNull |-> FALSE],
       [name |-> "name", notNull |-> TRUE],
       [name |-> "location", notNull |-> FALSE],
       [name |-> "installed_at", notNull |-> FALSE] >>,
   primaryKey |-> <<"id">>,
   uniques |-> {},
   indexes |-> {},
   checks |-> {},
   foreignKeys |-> <<>>]

\* src/drizzle/postgresql/composite-keys/schema.ts:254-259  projects
pgComposite_projects ==
  [ns |-> DefaultNamespace, name |-> "projects",
   columns |-> <<
       [name |-> "id", notNull |-> FALSE],
       [name |-> "name", notNull |-> TRUE],
       [name |-> "description", notNull |-> FALSE],
       [name |-> "created_at", notNull |-> FALSE] >>,
   primaryKey |-> <<"id">>,
   uniques |-> {},
   indexes |-> {},
   checks |-> {},
   foreignKeys |-> <<>>]

\* src/drizzle/postgresql/composite-keys/schema.ts:263-272  projectUsers
pgComposite_projectUsers ==
  [ns |-> DefaultNamespace, name |-> "project_users",
   columns |-> <<
       [name |-> "project_id", notNull |-> TRUE],
       [name |-> "user_id", notNull |-> TRUE] >>,
   primaryKey |-> <<"project_id", "user_id">>,
   uniques |-> {},
   indexes |-> {},
   checks |-> {},
   foreignKeys |-> <<>>]

\* src/drizzle/postgresql/composite-keys/schema.ts:274-287  projectTasks
pgComposite_projectTasks ==
  [ns |-> DefaultNamespace, name |-> "project_tasks",
   columns |-> <<
       [name |-> "project_id", notNull |-> TRUE],
       [name |-> "user_id", notNull |-> TRUE],
       [name |-> "task_id", notNull |-> TRUE] >>,
   primaryKey |-> <<>>,
   uniques |-> {},
   indexes |-> {},
   checks |-> {},
   foreignKeys |-> <<[source |-> <<DefaultNamespace, "project_tasks">>, sourceColumns |-> <<"project_id", "user_id">>, target |-> <<DefaultNamespace, "project_users">>, targetColumns |-> <<"project_id", "user_id">>,
        onDelete |-> "no action", onUpdate |-> "no action"]>>]

\* src/drizzle/postgresql/composite-keys/schema.ts: the file's declarations, in file order
pgComposite_declarations ==
  [namespaces |->
     <<>>,
   tables |->
     <<pgComposite_userRoles,
       pgComposite_orderItems,
       pgComposite_translations,
       pgComposite_sensorData,
       pgComposite_userProjectPermissions,
       pgComposite_users,
       pgComposite_roles,
       pgComposite_userRoles_2,
       pgComposite_orderItems_2,
       pgComposite_translations_2,
       pgComposite_sensorData_2,
       pgComposite_userProjectPermissions_2,
       pgComposite_users_2,
       pgComposite_roles_2,
       pgComposite_orders,
       pgComposite_products,
       pgComposite_entities,
       pgComposite_devices,
       pgComposite_projects,
       pgComposite_projectUsers,
       pgComposite_projectTasks>>,
   relations |->
     <<pgComposite_usersRelations,
       pgComposite_rolesRelations,
       pgComposite_userRolesRelations,
       pgComposite_orderItemsRelations,
       pgComposite_translationsRelations,
       pgComposite_sensorDataRelations,
       pgComposite_userProjectPermissionsRelations>>]

\* ---- src/drizzle/mysql/composite-keys/schema.ts
\* src/drizzle/mysql/composite-keys/schema.ts:5-20  userRoles
mysqlComposite_userRoles ==
  [ns |-> DefaultNamespace, name |-> "user_roles",
   columns |-> <<
       [name |-> "user_id", notNull |-> TRUE],
       [name |-> "role_id", notNull |-> TRUE],
       [name |-> "assigned_at", notNull |-> FALSE],
       [name |-> "assigned_by", notNull |-> FALSE] >>,
   primaryKey |-> <<"user_id", "role_id">>,
   uniques |-> {},
   indexes |-> {},
   checks |-> {},
   foreignKeys |-> <<[source |-> <<DefaultNamespace, "user_roles">>, sourceColumns |-> <<"user_id">>, target |-> <<DefaultNamespace, "users">>, targetColumns |-> <<"id">>,
        onDelete |-> "cascade", onUpdate |-> "no action"],
       [source |-> <<DefaultNamespace, "user_roles">>, sourceColumns |-> <<"role_id">>, target |-> <<DefaultNamespace, "roles">>, targetColumns |-> <<"id">>,
        onDelete |-> "cascade", onUpdate |-> "no action"],
       [source |-> <<DefaultNamespace, "user_roles">>, sourceColumns |-> <<"assigned_by">>, target |-> <<DefaultNamespace, "users">>, targetColumns |-> <<"id">>,
        onDelete |-> "set null", onUpdate |-> "no action"]>>]

\* src/drizzle/mysql/composite-keys/schema.ts:23-37  orderItems
mysqlComposite_orderItems ==
  [ns |-> DefaultNamespace, name |-> "order_items",
   columns |-> <<
       [name |-> "order_id", notNull |-> TRUE],
       [name |-> "product_id", notNull |-> TRUE],
       [name |-> "quantity", notNull |-> TRUE],
       [name |-> "unit_price", notNull |-> TRUE],
       [name |-> "created_at", notNull |-> FALSE] >>,
   primaryKey |-> <<"order_id", "product_id">>,
   uniques |-> {},
   indexes |-> {},
   checks |-> {},
   foreignKeys |-> <<[source |-> <<DefaultNamespace, "order_items">>, sourceColumns |-> <<"order_id">>, target |-> <<DefaultNamespace, "orders">>, targetColumns |-> <<"id">>,
        onDelete |-> "cascade", onUpdate |-> "no action"],
       [source |-> <<DefaultNamespace, "order_items">>, sourceColumns |-> <<"product_id">>, target |-> <<DefaultNamespace, "products">>, targetColumns |-> <<"id">>,
        onDelete |-> "cascade", onUpdate |-> "no action"]>>]

\* src/drizzle/mysql/composite-keys/schema.ts:40-52  translations
mysqlComposite_translations ==
  [ns |-> DefaultNamespace, name |-> "translations",
   columns |-> <<
       [name |-> "entity_id", notNull |-> TRUE],
       [name |-> "language_code", notNull |-> TRUE],
       [name |-> "title", notNull |-> TRUE],
       [name |-> "description", notNull |-> FALSE],
       [name |-> "updated_at", notNull |-> FALSE] >>,
   primaryKey |-> <<"entity_id", "language_code">>,
   uniques |-> {},
   indexes |-> {},
   checks |-> {},
   foreignKeys |-> <<[source |-> <<DefaultNamespace, "translations">>, sourceColumns |-> <<"entity_id">>, target |-> <<DefaultNamespace, "entities">>, targetColumns |-> <<"id">>,
        onDelete |-> "cascade", onUpdate |-> "no action"]>>]

\* src/drizzle/mysql/composite-keys/schema.ts:55-67  sensorData
mysqlComposite_sensorData ==
  [ns |-> DefaultNamespace, name |-> "sensor_data",
   columns |-> <<
       [name |-> "device_id", notNull |-> TRUE],
       [name |-> "timestamp", notNull |-> TRUE],
       [name |-> "temperature", notNull |-> FALSE],
       [name |-> "humidity", notNull |-> FALSE],
       [name |-> "battery_level", notNull |-> FALSE] >>,
   primaryKey |-> <<"device_id", "timestamp">>,
   uniques |-> {},
   indexes |-> {},
   checks |-> {},
   foreignKeys |-> <<[source |-> <<DefaultNamespace, "sensor_data">>, sourceColumns |-> <<"device_id">>, target |-> <<DefaultNamespace, "devices">>, targetColumns |-> <<"id">>,
        onDelete |-> "cascade", onUpdate |-> "no action"]>>]

\* src/drizzle/mysql/composite-keys/schema.ts:70-86  userProjectPermissions
mysqlComposite_userProjectPermissions ==
  [ns |-> DefaultNamespace, name |-> "user_project_permissions",
   columns |-> <<
       [name |-> "user_id", notNull |-> TRUE],
       [name |-> "project_id", notNull |-> TRUE],
       [name |-> "permission", notNull |-> TRUE],
       [name |-> "granted_at", notNull |-> FALSE],
       [name |-> "granted_by", notNull |-> FALSE] >>,
   primaryKey |-> <<"user_id", "project_id", "permission">>,
   uniques |-> {},
   indexes |-> {},
   checks |-> {},
   foreignKeys |-> <<[source |-> <<DefaultNamespace, "user_project_permissions">>, sourceColumns |-> <<"user_id">>, target |-> <<DefaultNamespace, "users">>, targetColumns |-> <<"id">>,
        onDelete |-> "cascade", onUpdate |-> "no action"],
       [source |-> <<DefaultNamespace, "user_project_permissions">>, sourceColumns |-> <<"project_id">>, target |-> <<DefaultNamespace, "projects">>, targetColumns |-> <<"id">>,
        onDelete |-> "cascade", onUpdate |-> "no action"],
       [source |-> <<DefaultNamespace, "user_project_permissions">>, sourceColumns |-> <<"granted_by">>, target |-> <<DefaultNamespace, "users">>, targetColumns |-> <<"id">>,
        onDelete |-> "set null", onUpdate |-> "no action"]>>]

\* src/drizzle/mysql/composite-keys/schema.ts:89-94  users
mysqlComposite_users ==
  [ns |-> DefaultNamespace, name |-> "users",
   columns |-> <<
       [name |-> "id", notNull |-> FALSE],
       [name |-> "name", notNull |-> TRUE],
       [name |-> "email", notNull |-> TRUE],
       [name |-> "created_at", notNull |-> FALSE] >>,
   primaryKey |-> <<"id">>,
   uniques |-> {},
   indexes |-> {},
   checks |-> {},
   foreignKeys |-> <<>>]

\* src/drizzle/mysql/composite-keys/schema.ts:96-100  roles
mysqlComposite_roles ==
  [ns |-> DefaultNamespace, name |-> "roles",
   columns |-> <<
       [name |-> "id", notNull |-> FALSE],
       [name |-> "name", notNull |-> TRUE],
       [name |-> "description", notNull |-> FALSE] >>,
   primaryKey |-> <<"id">>,
   uniques |-> {},
   indexes |-> {},
   checks |-> {},
   foreignKeys |-> <<>>]

\* src/drizzle/mysql/composite-keys/schema.ts:103-106  usersRelations
mysqlComposite_usersRelations ==
  << [name |-> "userRoles", from |-> <<DefaultNamespace, "users">>, to |-> <<DefaultNamespace, "user_roles">>, cardinality |-> "one-to-many", relationName |-> NoRelationName,
      fields |-> <<>>, references |-> <<>>],
     [name |-> "userProjectPermissions", from |-> <<DefaultNamespace, "users">>, to |-> <<DefaultNamespace, "user_project_permissions">>, cardinality |-> "one-to-many", relationName |-> NoRelationName,
      fields |-> <<>>, references |-> <<>>] >>

\* src/drizzle/mysql/composite-keys/schema.ts:108-110  rolesRelations
mysqlComposite_rolesRelations ==
  << [name |-> "userRoles", from |-> <<DefaultNamespace, "roles">>, to |-> <<DefaultNamespace, "user_roles">>, cardinality |-> "one-to-many", relationName |-> NoRelationName,
      fields |-> <<>>, references |-> <<>>] >>

\* src/drizzle/mysql/composite-keys/schema.ts:112-125  userRolesRelations
mysqlComposite_userRolesRelations ==
  << [name |-> "user", from |-> <<DefaultNamespace, "user_roles">>, to |-> <<DefaultNamespace, "users">>, cardinality |-> "many-to-one", relationName |-> NoRelationName,
      fields |-> <<"user_id">>, references |-> <<"id">>],
     [name |-> "role", from |-> <<DefaultNamespace, "user_roles">>, to |-> <<DefaultNamespace, "roles">>, cardinality |-> "many-to-one", relationName |-> NoRelationName,
      fields |-> <<"role_id">>, references |-> <<"id">>],
     [name |-> "assignedByUser", from |-> <<DefaultNamespace, "user_roles">>, to |-> <<DefaultNamespace, "users">>, cardinality |-> "many-to-one", relationName |-> NoRelationName,
      fields |-> <<"assigned_by">>, references |-> <<"id">>] >>

\* src/drizzle/mysql/composite-keys/schema.ts:127-136  orderItemsRelations
mysqlComposite_orderItemsRelations ==
  << [name |-> "order", from |-> <<DefaultNamespace, "order_items">>, to |-> <<DefaultNamespace, "orders">>, cardinality |-> "many-to-one", relationName |-> NoRelationName,
      fields |-> <<"order_id">>, references |-> <<"id">>],
     [name |-> "product", from |-> <<DefaultNamespace, "order_items">>, to |-> <<DefaultNamespace, "products">>, cardinality |-> "many-to-one", relationName |-> NoRelationName,
      fields |-> <<"product_id">>, references |-> <<"id">>] >>

\* src/drizzle/mysql/composite-keys/schema.ts:138-143  translationsRelations
mysqlComposite_translationsRelations ==
  << [name |-> "entity", from |-> <<DefaultNamespace, "translations">>, to |-> <<DefaultNamespace, "entities">>, cardinality |-> "many-to-one", relationName |-> NoRelationName,
      fields |-> <<"entity_id">>, references |-> <<"id">>] >>

\* src/drizzle/mysql/composite-keys/schema.ts:145-150  sensorDataRelations
mysqlComposite_sensorDataRelations ==
  << [name |-> "device", from |-> <<DefaultNamespace, "sensor_data">>, to |-> <<DefaultNamespace, "devices">>, cardinality |-> "many-to-one", relationName |-> NoRelationName,
      fields |-> <<"device_id">>, references |-> <<"id">>] >>

\* src/drizzle/mysql/composite-keys/schema.ts:152-165  userProjectPermissionsRelations
mysqlComposite_userProjectPermissionsRelations ==
  << [name |-> "user", from |-> <<DefaultNamespace, "user_project_permissions">>, to |-> <<DefaultNamespace, "users">>, cardinality |-> "many-to-one", relationName |-> NoRelationName,
      fields |-> <<"user_id">>, references |-> <<"id">>],
     [name |-> "project", from |-> <<DefaultNamespace, "user_project_permissions">>, to |-> <<DefaultNamespace, "projects">>, cardinality |-> "many-to-one", relationName |-> NoRelationName,
      fields |-> <<"project_id">>, references |-> <<"id">>],
     [name |-> "grantedByUser", from |-> <<DefaultNamespace, "user_project_permissions">>, to |-> <<DefaultNamespace, "users">>, cardinality |-> "many-to-one", relationName |-> NoRelationName,
      fields |-> <<"granted_by">>, references |-> <<"id">>] >>

\* src/drizzle/mysql/composite-keys/schema.ts:168-175  orders
mysqlComposite_orders ==
  [ns |-> DefaultNamespace, name |-> "orders",
   columns |-> <<
       [name |-> "id", notNull |-> FALSE],
       [name |-> "user_id", notNull |-> TRUE],
       [name |-> "total", notNull |-> TRUE],
       [name |-> "created_at", notNull |-> FALSE] >>,
   primaryKey |-> <<"id">>,
   uniques |-> {},
   indexes |-> {},
   checks |-> {},
   foreignKeys |-> <<[source |-> <<DefaultNamespace, "orders">>, sourceColumns |-> <<"user_id">>, target |-> <<DefaultNamespace, "users">>, targetColumns |-> <<"id">>,
        onDelete |-> "cascade", onUpdate |-> "no action"]>>]

\* src/drizzle/mysql/composite-keys/schema.ts:177-181  products
mysqlComposite_products ==
  [ns |-> DefaultNamespace, name |-> "products",
   columns |-> <<
       [name |-> "id", notNull |-> FALSE],
       [name |-> "name", notNull |-> TRUE],
       [name |-> "price", notNull |-> TRUE] >>,
   primaryKey |-> <<"id">>,
   uniques |-> {},
   indexes |-> {},
   checks |-> {},
   foreignKeys |-> <<>>]

\* src/drizzle/mysql/composite-keys/schema.ts:183-187  entities
mysqlComposite_entities ==
  [ns |-> DefaultNamespace, name |-> "entities",
   columns |-> <<
       [name |-> "id", notNull |-> FALSE],
       [name |-> "type", notNull |-> TRUE],
       [name |-> "created_at", notNull |-> FALSE] >>,
   primaryKey |-> <<"id">>,
   uniques |-> {},
   indexes |-> {},
   checks |-> {},
   foreignKeys |-> <<>>]

\* src/drizzle/mysql/composite-keys/schema.ts:189-194  devices
mysqlComposite_devices ==
  [ns |-> DefaultNamespace, name |-> "devices",
   columns |-> <<
       [name |-> "id", notNull |-> FALSE],
       [name |-> "name", notNull |-> TRUE],
       [name |-> "location", notNull |-> FALSE],
       [name |-> "installed_at", notNull |-> FALSE] >>,
   primaryKey |-> <<"id">>,
   uniques |-> {},
   indexes |-> {},
   checks |-> {},
   foreignKeys |-> <<>>]

\* src/drizzle/mysql/composite-keys/schema.ts:196-201  projects
mysqlComposite_projects ==
  [ns |-> DefaultNamespace, name |-> "projects",
   columns |-> <<
       [name |-> "id", notNull |-> FALSE],
       [name |-> "name", notNull |-> TRUE],
       [name |-> "description", notNull |-> FALSE],
       [name |-> "created_at", notNull |-> FALSE] >>,
   primaryKey |-> <<"id">>,
   uniques |-> {},
   indexes |-> {},
   checks |-> {},
   foreignKeys |-> <<>>]

\* src/drizzle/mysql/composite-keys/schema.ts: the file's declarations, in file order
mysqlComposite_declarations ==
  [namespaces |->
     <<>>,
   tables |->
     <<mysqlComposite_userRoles,
       mysqlComposite_orderItems,
       mysqlComposite_translations,
       mysqlComposite_sensorData,
       mysqlComposite_userProjectPermissions,
       mysqlComposite_users,
       mysqlComposite_roles,
       mysqlComposite_orders,
       mysqlComposite_products,
       mysqlComposite_entities,
       mysqlComposite_devices,
       mysqlComposite_projects>>,
   relations |->
     <<mysqlComposite_usersRelations,
       mysqlComposite_rolesRelations,
       mysqlComposite_userRolesRelations,
       mysqlComposite_orderItemsRelations,
       mysqlComposite_translationsRelations,
       mysqlComposite_sensorDataRelations,
       mysqlComposite_userProjectPermissionsRelations>>]

\* ---- src/drizzle/postgresql/advanced/schema.ts
\* src/drizzle/postgresql/advanced/schema.ts:29  authSchema
pgAdvanced_authSchema ==
  "auth"

\* src/drizzle/postgresql/advanced/schema.ts:32  publicSchema
pgAdvanced_publicSchema ==
  "public"

\* src/drizzle/postgresql/advanced/schema.ts:35  analyticsSchema
pgAdvanced_analyticsSchema ==
  "analytics"

\* src/drizzle/postgresql/advanced/schema.ts:38  adminSchema
pgAdvanced_adminSchema ==
  "admin"

\* src/drizzle/postgresql/advanced/schema.ts:44-67  authUsers
pgAdvanced_authUsers ==
  [ns |-> "auth", name |-> "users",
   columns |-> <<
       [name |-> "id", notNull |-> FALSE],
       [name |-> "email", notNull |-> TRUE],
       [name |-> "password_hash", notNull |-> TRUE],
       [name |-> "is_email_verified", notNull |-> TRUE],
       [name |-> "email_verification_token", notNull |-> FALSE],
       [name |-> "password_reset_token", notNull |-> FALSE],
       [name |-> "password_reset_expires_at", notNull |-> FALSE],
       [name |-> "last_login_at", notNull |-> FALSE],
       [name |-> "login_attempts", notNull |-> TRUE],
       [name |-> "locked_until", notNull |-> FALSE],
       [name |-> "created_at", notNull |-> TRUE],
       [name |-> "updated_at", notNull |-> TRUE] >>,
   primaryKey |-> <<"id">>,
   uniques |-> {[name |-> "users_email_unique", columns |-> <<"email">>]},
   indexes |-> {[name |-> "auth_users_email_idx", columns |-> <<"email">>, unique |-> TRUE, where |-> {}],
       [name |-> "auth_users_verification_token_idx", columns |-> <<"email_verification_token">>, unique |-> FALSE, where |-> {}],
       [name |-> "auth_users_reset_token_idx", columns |-> <<"password_reset_token">>, unique |-> FALSE, where |-> {}],
       [name |-> "auth_users_locked_accounts_idx", columns |-> <<"locked_until">>, unique |-> FALSE, where |-> {"locked_until"}]},
   checks |-> {[name |-> "auth_users_login_attempts_check", columns |-> {"login_attempts"}]},
   foreignKeys |-> <<>>]

\* src/drizzle/postgresql/advanced/schema.ts:69-90  authSessions
pgAdvanced_authSessions ==
  [ns |-> "auth", name |-> "sessions",
   columns |-> <<
       [name |-> "id", notNull |-> FALSE],
       [name |-> "user_id", notNull |-> TRUE],
       [name |-> "token", notNull |-> TRUE],
       [name |-> "expires_at", notNull |-> TRUE],
       [name |-> "ip_address", notNull |-> FALSE],
       [name |-> "user_agent", notNull |-> FALSE],
       [name |-> "is_active", notNull |-> TRUE],
       [name |-> "created_at", notNull |-> TRUE] >>,
   primaryKey |-> <<"id">>,
   uniques |-> {[name |-> "sessions_token_unique", columns |-> <<"token">>]},
   indexes |-> {[name |-> "auth_sessions_user_id_idx", columns |-> <<"user_id">>, unique |-> FALSE, where |-> {}],
       [name |-> "auth_sessions_token_idx", columns |-> <<"token">>, unique |-> TRUE, where |-> {}],
       [name |-> "auth_sessions_active_idx", columns |-> <<"user_id", "expires_at">>, unique |-> FALSE, where |-> {"expires_at", "is_active"}]},
   checks |-> {[name |-> "auth_sessions_expiration_check", columns |-> {"created_at", "expires_at"}]},
   foreignKeys |-> <<[source |-> <<"auth", "sessions">>, sourceColumns |-> <<"user_id">>, target |-> <<"auth", "users">>, targetColumns |-> <<"id">>,
        onDelete |-> "cascade", onUpdate |-> "cascade"]>>]

\* src/drizzle/postgresql/advanced/schema.ts:96-146  publicEvents
pgAdvanced_publicEvents ==
  [ns |-> "public", name |-> "events",
   columns |-> <<
       [name |-> "id", notNull |-> FALSE],
       [name |-> "title", notNull |-> TRUE],
       [name |-> "description", notNull |-> FALSE],
       [name |-> "start_date", notNull |-> TRUE],
       [name |-> "end_date", notNull |-> TRUE],
       [name |-> "start_time", notNull |-> FALSE],
       [name |-> "end_time", notNull |-> FALSE],
       [name |-> "min_price", notNull |-> FALSE],
       [name |-> "max_price", notNull |-> FALSE],
       [name |-> "min_participants", notNull |-> FALSE],
       [name |-> "max_participants", notNull |-> FALSE],
       [name |-> "min_age", notNull |-> FALSE],
       [name |-> "max_age", notNull |-> FALSE],
       [name |-> "location", notNull |-> FALSE],
       [name |-> "organizer_id", notNull |-> FALSE],
       [name |-> "current_participants", notNull |-> TRUE],
       [name |-> "is_public", notNull |-> TRUE],
       [name |-> "tags", notNull |-> FALSE],
       [name |-> "metadata", notNull |-> FALSE],
       [name |-> "created_at", notNull |-> TRUE],
       [name |-> "updated_at", notNull |-> TRUE] >>,
   primaryKey |-> <<"id">>,
   uniques |-> {},
   indexes |-> {[name |-> "events_date_range_idx", columns |-> <<"start_date", "end_date">>, unique |-> FALSE, where |-> {}],
       [name |-> "events_time_range_idx", columns |-> <<"start_time", "end_time">>, unique |-> FALSE, where |-> {}],
       [name |-> "events_organizer_idx", columns |-> <<"organizer_id">>, unique |-> FALSE, where |-> {}],
       [name |-> "events_public_idx", columns |-> <<"is_public">>, unique |-> FALSE, where |-> {"is_public"}],
       [name |-> "events_tags_idx", columns |-> <<"tags">>, unique |-> FALSE, where |-> {}],
       [name |-> "events_metadata_idx", columns |-> <<"metadata">>, unique |-> FALSE, where |-> {}]},
   checks |-> {[name |-> "events_participants_check", columns |-> {"current_participants", "max_participants"}],
       [name |-> "events_max_participants_check", columns |-> {"max_participants"}],
       [name |-> "events_date_range_check", columns |-> {"end_date", "start_date"}],
       [name |-> "events_time_range_check", columns |-> {"end_time", "start_time"}],
       [name |-> "events_price_range_check", columns |-> {"max_price", "min_price"}],
       [name |-> "events_age_range_check", columns |-> {"max_age", "min_age"}]},
   foreignKeys |-> <<[source |-> <<"public", "events">>, sourceColumns |-> <<"organizer_id">>, target |-> <<"auth", "users">>, targetColumns |-> <<"id">>,
        onDelete |-> "restrict", onUpdate |-> "cascade"]>>]

\* src/drizzle/postgresql/advanced/schema.ts:148-179  publicBookings
pgAdvanced_publicBookings ==
  [ns |-> "public", name |-> "bookings",
   columns |-> <<
       [name |-> "id", notNull |-> FALSE],
       [name |-> "event_id", notNull |-> TRUE],
       [name |-> "user_id", notNull |-> TRUE],
       [name |-> "booking_start_time", notNull |-> TRUE],
       [name |-> "booking_end_time", notNull |-> TRUE],
       [name |-> "participant_count", notNull |-> TRUE],
       [name |-> "total_price", notNull |-> TRUE],
       [name |-> "status", notNull |-> TRUE],
       [name |-> "notes", notNull |-> FALSE],
       [name |-> "created_at", notNull |-> TRUE],
       [name |-> "updated_at", notNull |-> TRUE] >>,
   primaryKey |-> <<"id">>,
   uniques |-> {[name |-> "bookings_event_user_time_unique", columns |-> <<"event_id", "user_id", "booking_start_time">>]},
   indexes |-> {[name |-> "bookings_event_user_idx", columns |-> <<"event_id", "user_id">>, unique |-> FALSE, where |-> {}],
       [name |-> "bookings_user_idx", columns |-> <<"user_id">>, unique |-> FALSE, where |-> {}],
       [name |-> "bookings_time_range_idx", columns |-> <<"booking_start_time", "booking_end_time">>, unique |-> FALSE, where |-> {}],
       [name |-> "bookings_status_idx", columns |-> <<"status">>, unique |-> FALSE, where |-> {}]},
   checks |-> {[name |-> "bookings_participant_count_check", columns |-> {"participant_count"}],
       [name |-> "bookings_total_price_check", columns |-> {"total_price"}],
       [name |-> "bookings_time_range_check", columns |-> {"booking_end_time", "booking_start_time"}]},
   foreignKeys |-> <<[source |-> <<"public", "bookings">>, sourceColumns |-> <<"event_id">>, target |-> <<"public", "events">>, targetColumns |-> <<"id">>,
        onDelete |-> "cascade", onUpdate |-> "cascade"],
       [source |-> <<"public", "bookings">>, sourceColumns |-> <<"user_id">>, target |-> <<"auth", "users">>, targetColumns |-> <<"id">>,
        onDelete |-> "restrict", onUpdate |-> "cascade"]>>]

\* src/drizzle/postgresql/advanced/schema.ts:185-210  analyticsPageViews
pgAdvanced_analyticsPageViews ==
  [ns |-> "analytics", name |-> "page_views",
   columns |-> <<
       [name |-> "id", notNull |-> FALSE],
       [name |-> "user_id", notNull |-> FALSE],
       [name |-> "session_id", notNull |-> FALSE],
       [name |-> "url", notNull |-> TRUE],
       [name |-> "referrer", notNull |-> FALSE],
       [name |-> "user_agent", notNull |-> FALSE],
       [name |-> "ip_address", notNull |-> FALSE],
       [name |-> "country_code", notNull |-> FALSE],
       [name |-> "duration", notNull |-> FALSE],
       [name |-> "viewed_at", notNull |-> TRUE] >>,
   primaryKey |-> <<"id">>,
   uniques |-> {},
   indexes |-> {[name |-> "analytics_page_views_user_id_idx", columns |-> <<"user_id">>, unique |-> FALSE, where |-> {}],
       [name |-> "analytics_page_views_session_id_idx", columns |-> <<"session_id">>, unique |-> FALSE, where |-> {}],
       [name |-> "analytics_page_views_url_idx", columns |-> <<"url">>, unique |-> FALSE, where |-> {}],
       [name |-> "analytics_page_views_viewed_at_idx", columns |-> <<"viewed_at">>, unique |-> FALSE, where |-> {}],
       [name |-> "analytics_page_views_country_idx", columns |-> <<"country_code">>, unique |-> FALSE, where |-> {}],
       [name |-> "analytics_page_views_url_date_idx", columns |-> <<"url", "viewed_at">>, unique |-> FALSE, where |-> {}]},
   checks |-> {},
   foreignKeys |-> <<[source |-> <<"analytics", "page_views">>, sourceColumns |-> <<"user_id">>, target |-> <<"auth", "users">>, targetColumns |-> <<"id">>,
        onDelete |-> "set null", onUpdate |-> "cascade"],
       [source |-> <<"analytics", "page_views">>, sourceColumns |-> <<"session_id">>, target |-> <<"auth", "sessions">>, targetColumns |-> <<"id">>,
        onDelete |-> "set null", onUpdate |-> "cascade"]>>]

\* src/drizzle/postgresql/advanced/schema.ts:216-237  adminAuditLogs
pgAdvanced_adminAuditLogs ==
  [ns |-> "admin", name |-> "audit_logs",
   columns |-> <<
       [name |-> "id", notNull |-> FALSE],
       [name |-> "user_id", notNull |-> FALSE],
       [name |-> "action", notNull |-> TRUE],
       [name |-> "table_name", notNull |-> FALSE],
       [name |-> "record_id", notNull |-> FALSE],
       [name |-> "old_values", notNull |-> FALSE],
       [name |-> "new_values", notNull |-> FALSE],
       [name |-> "ip_address", notNull |-> FALSE],
       [name |-> "user_agent", notNull |-> FALSE],
       [name |-> "performed_at", notNull |-> TRUE] >>,
   primaryKey |-> <<"id">>,
   uniques |-> {},
   indexes |-> {[name |-> "admin_audit_logs_user_id_idx", columns |-> <<"user_id">>, unique |-> FALSE, where |-> {}],
       [name |-> "admin_audit_logs_action_idx", columns |-> <<"action">>, unique |-> FALSE, where |-> {}],
       [name |-> "admin_audit_logs_table_name_idx", columns |-> <<"table_name">>, unique |-> FALSE, where |-> {}],
       [name |-> "admin_audit_logs_performed_at_idx", columns |-> <<"performed_at">>, unique |-> FALSE, where |-> {}],
       [name |-> "admin_audit_logs_table_record_idx", columns |-> <<"table_name", "record_id">>, unique |-> FALSE, where |-> {}]},
   checks |-> {},
   foreignKeys |-> <<[source |-> <<"admin", "audit_logs">>, sourceColumns |-> <<"user_id">>, target |-> <<"auth", "users">>, targetColumns |-> <<"id">>,
        onDelete |-> "restrict", onUpdate |-> "cascade"]>>]

\* src/drizzle/postgresql/advanced/schema.ts:243-268  publicProjects
pgAdvanced_publicProjects ==
  [ns |-> "public", name |-> "projects",
   columns |-> <<
       [name |-> "id", notNull |-> FALSE],
       [name |-> "name", notNull |-> TRUE],
       [name |-> "owner_id", notNull |-> TRUE],
       [name |-> "manager_id", notNull |-> FALSE],
       [name |-> "status", notNull |-> TRUE],
       [name |-> "budget", notNull |-> FALSE],
       [name |-> "start_date", notNull |-> FALSE],
       [name |-> "end_date", notNull |-> FALSE],
       [name |-> "created_at", notNull |-> TRUE],
       [name |-> "updated_at", notNull |-> TRUE] >>,
   primaryKey |-> <<"id">>,
   uniques |-> {},
   indexes |-> {[name |-> "projects_owner_idx", columns |-> <<"owner_id">>, unique |-> FALSE, where |-> {}],
       [name |-> "projects_manager_idx", columns |-> <<"manager_id">>, unique |-> FALSE, where |-> {}],
       [name |-> "projects_status_idx", columns |-> <<"status">>, unique |-> FALSE, where |-> {}]},
   checks |-> {[name |-> "projects_date_range_check", columns |-> {"end_date", "start_date"}],
       [name |-> "projects_budget_check", columns |-> {"budget"}]},
   foreignKeys |-> <<[source |-> <<"public", "projects">>, sourceColumns |-> <<"owner_id">>, target |-> <<"auth", "users">>, targetColumns |-> <<"id">>,
        onDelete |-> "restrict", onUpdate |-> "cascade"],
       [source |-> <<"public", "projects">>, sourceColumns |-> <<"manager_id">>, target |-> <<"auth", "users">>, targetColumns |-> <<"id">>,
        onDelete |-> "set null", onUpdate |-> "cascade"]>>]

\* src/drizzle/postgresql/advanced/schema.ts:274-284  publicDepartments
pgAdvanced_publicDepartments ==
  [ns |-> "public", name |-> "departments",
   columns |-> <<
       [name |-> "id", notNull |-> FALSE],
       [name |-> "name", notNull |-> TRUE],
       [name |-> "manager_id", notNull |-> FALSE],
       [name |-> "parent_department_id", notNull |-> FALSE],
       [name |-> "budget", notNull |-> FALSE],
       [name |-> "created_at", notNull |-> TRUE] >>,
   primaryKey |-> <<"id">>,
   uniques |-> {},
   indexes |-> {[name |-> "departments_manager_idx", columns |-> <<"manager_id">>, unique |-> FALSE, where |-> {}],
       [name |-> "departments_parent_idx", columns |-> <<"parent_department_id">>, unique |-> FALSE, where |-> {}]},
   checks |-> {},
   foreignKeys |-> <<>>]

\* src/drizzle/postgresql/advanced/schema.ts:286-312  publicEmployees
pgAdvanced_publicEmployees ==
  [ns |-> "public", name |-> "employees",
   columns |-> <<
       [name |-> "id", notNull |-> FALSE],
       [name |-> "user_id", notNull |-> TRUE],
       [name |-> "employee_number", notNull |-> TRUE],
       [name |-> "department_id", notNull |-> FALSE],
       [name |-> "manager_id", notNull |-> FALSE],
       [name |-> "position", notNull |-> FALSE],
       [name |-> "salary", notNull |-> FALSE],
       [name |-> "hire_date", notNull |-> TRUE],
       [name |-> "termination_date", notNull |-> FALSE],
       [name |-> "is_active", notNull |-> TRUE] >>,
   primaryKey |-> <<"id">>,
   uniques |-> {[name |-> "employees_user_id_unique", columns |-> <<"user_id">>], [name |-> "employees_employee_number_unique", columns |-> <<"employee_number">>]},
   indexes |-> {[name |-> "employees_user_id_idx", columns |-> <<"user_id">>, unique |-> TRUE, where |-> {}],
       [name |-> "employees_employee_number_idx", columns |-> <<"employee_number">>, unique |-> TRUE, where |-> {}],
       [name |-> "employees_department_idx", columns |-> <<"department_id">>, unique |-> FALSE, where |-> {}],
       [name |-> "employees_manager_idx", columns |-> <<"manager_id">>, unique |-> FALSE, where |-> {}],
       [name |-> "employees_active_idx", columns |-> <<"is_active">>, unique |-> FALSE, where |-> {"is_active"}]},
   checks |-> {[name |-> "employees_salary_check", columns |-> {"salary"}],
       [name |-> "employees_dates_check", columns |-> {"hire_date", "termination_date"}]},
   foreignKeys |-> <<[source |-> <<"public", "employees">>, sourceColumns |-> <<"user_id">>, target |-> <<"auth", "users">>, targetColumns |-> <<"id">>,
        onDelete |-> "cascade", onUpdate |-> "cascade"]>>]

\* src/drizzle/postgresql/advanced/schema.ts:319-322  publicVeryLongTableNameThatIsNearThePostgreSQLLimitOfSixtyThree
pgAdvanced_publicVeryLongTableNameThatIsNearThePostgreSQLLimitOfSixtyThree ==
  [ns |-> "public", name |-> "very_long_table_name_that_is_near_the_postgresql_limit_of_63",
   columns |-> <<
       [name |-> "id", notNull |-> FALSE],
       [name |-> "very_long_column_name_that_is_also_near_the_limit", notNull |-> FALSE] >>,
   primaryKey |-> <<"id">>,
   uniques |-> {},
   indexes |-> {},
   checks |-> {},
   foreignKeys |-> <<>>]

\* src/drizzle/postgresql/advanced/schema.ts:325-333  publicOrder
pgAdvanced_publicOrder ==
  [ns |-> "public", name |-> "order",
   columns |-> <<
       [name |-> "id", notNull |-> FALSE],
       [name |-> "user", notNull |-> FALSE],
       [name |-> "group", notNull |-> FALSE],
       [name |-> "table", notNull |-> FALSE] >>,
   primaryKey |-> <<"id">>,
   uniques |-> {},
   indexes |-> {[name |-> "order_user_idx", columns |-> <<"user">>, unique |-> FALSE, where |-> {}]},
   checks |-> {},
   foreignKeys |-> <<>>]

\* src/drizzle/postgresql/advanced/schema.ts:339-348  authUsersRelations
pgAdvanced_authUsersRelations ==
  << [name |-> "sessions", from |-> <<"auth", "users">>, to |-> <<"auth", "sessions">>, cardinality |-> "one-to-many", relationName |-> NoRelationName,
      fields |-> <<>>, references |-> <<>>],
     [name |-> "events", from |-> <<"auth", "users">>, to |-> <<"public", "events">>, cardinality |-> "one-to-many", relationName |-> NoRelationName,
      fields |-> <<>>, references |-> <<>>],
     [name |-> "bookings", from |-> <<"auth", "users">>, to |-> <<"public", "bookings">>, cardinality |-> "one-to-many", relationName |-> NoRelationName,
      fields |-> <<>>, references |-> <<>>],
     [name |-> "pageViews", from |-> <<"auth", "users">>, to |-> <<"analytics", "page_views">>, cardinality |-> "one-to-many", relationName |-> NoRelationName,
      fields |-> <<>>, references |-> <<>>],
     [name |-> "auditLogs", from |-> <<"auth", "users">>, to |-> <<"admin", "audit_logs">>, cardinality |-> "one-to-many", relationName |-> NoRelationName,
      fields |-> <<>>, references |-> <<>>],
     [name |-> "ownedProjects", from |-> <<"auth", "users">>, to |-> <<"public", "projects">>, cardinality |-> "one-to-many", relationName |-> "ProjectOwner",
      fields |-> <<>>, references |-> <<>>],
     [name |-> "managedProjects", from |-> <<"auth", "users">>, to |-> <<"public", "projects">>, cardinality |-> "one-to-many", relationName |-> "ProjectManager",
      fields |-> <<>>, references |-> <<>>],
     [name |-> "employee", from |-> <<"auth", "users">>, to |-> <<"public", "employees">>, cardinality |-> "one-to-many", relationName |-> NoRelationName,
      fields |-> <<>>, references |-> <<>>] >>

\* src/drizzle/postgresql/advanced/schema.ts:350-356  authSessionsRelations
pgAdvanced_authSessionsRelations ==
  << [name |-> "user", from |-> <<"auth", "sessions">>, to |-> <<"auth", "users">>, cardinality |-> "many-to-one", relationName |-> NoRelationName,
      fields |-> <<"user_id">>, references |-> <<"id">>],
     [name |-> "pageViews", from |-> <<"auth", "sessions">>, to |-> <<"analytics", "page_views">>, cardinality |-> "one-to-many", relationName |-> NoRelationName,
      fields |-> <<>>, references |-> <<>>] >>

\* src/drizzle/postgresql/advanced/schema.ts:358-364  publicEventsRelations
pgAdvanced_publicEventsRelations ==
  << [name |-> "organizer", from |-> <<"public", "events">>, to |-> <<"auth", "users">>, cardinality |-> "many-to-one", relationName |-> NoRelationName,
      fields |-> <<"organizer_id">>, references |-> <<"id">>],
     [name |-> "bookings", from |-> <<"public", "events">>, to |-> <<"public", "bookings">>, cardinality |-> "one-to-many", relationName |-> NoRelationName,
      fields |-> <<>>, references |-> <<>>] >>

\* src/drizzle/postgresql/advanced/schema.ts:366-375  publicBookingsRelations
pgAdvanced_publicBookingsRelations ==
  << [name |-> "event", from |-> <<"public", "bookings">>, to |-> <<"public", "events">>, cardinality |-> "many-to-one", relationName |-> NoRelationName,
      fields |-> <<"event_id">>, references |-> <<"id">>],
     [name |-> "user", from |-> <<"public", "bookings">>, to |-> <<"auth", "users">>, cardinality |-> "many-to-one", relationName |-> NoRelationName,
      fields |-> <<"user_id">>, references |-> <<"id">>] >>

\* src/drizzle/postgresql/advanced/schema.ts:377-388  publicProjectsRelations
pgAdvanced_publicProjectsRelations ==
  << [name |-> "owner", from |-> <<"public", "projects">>, to |-> <<"auth", "users">>, cardinality |-> "many-to-one", relationName |-> "ProjectOwner",
      fields |-> <<"owner_id">>, references |-> <<"id">>],
     [name |-> "manager", from |-> <<"public", "projects">>, to |-> <<"auth", "users">>, cardinality |-> "many-to-one", relationName |-> "ProjectManager",
      fields |-> <<"manager_id">>, references |-> <<"id">>] >>

\* src/drizzle/postgresql/advanced/schema.ts:390-400  publicDepartmentsRelations
pgAdvanced_publicDepartmentsRelations ==
  << [name |-> "parent", from |-> <<"public", "departments">>, to |-> <<"public", "departments">>, cardinality |-> "many-to-one", relationName |-> "DepartmentHierarchy",
      fields |-> <<"parent_department_id">>, references |-> <<"id">>],
     [name |-> "children", from |-> <<"public", "departments">>, to |-> <<"public", "departments">>, cardinality |-> "one-to-many", relationName |-> "DepartmentHierarchy",
      fields |-> <<>>, references |-> <<>>],
     [name |-> "employees", from |-> <<"public", "departments">>, to |-> <<"public", "employees">>, cardinality |-> "one-to-many", relationName |-> NoRelationName,
      fields |-> <<>>, references |-> <<>>] >>

\* src/drizzle/postgresql/advanced/schema.ts:402-415  publicEmployeesRelations
pgAdvanced_publicEmployeesRelations ==
  << [name |-> "user", from |-> <<"public", "employees">>, to |-> <<"auth", "users">>, cardinality |-> "many-to-one", relationName |-> NoRelationName,
      fields |-> <<"user_id">>, references |-> <<"id">>],
     [name |-> "manager", from |-> <<"public", "employees">>, to |-> <<"public", "employees">>, cardinality |-> "many-to-one", relationName |-> "EmployeeHierarchy",
      fields |-> <<"manager_id">>, references |-> <<"id">>],
     [name |-> "subordinates", from |-> <<"public", "employees">>, to |-> <<"public", "employees">>, cardinality |-> "one-to-many", relationName |-> "EmployeeHierarchy",
      fields |-> <<>>, references |-> <<>>] >>

\* src/drizzle/postgresql/advanced/schema.ts:417-426  analyticsPageViewsRelations
pgAdvanced_analyticsPageViewsRelations ==
  << [name |-> "user", from |-> <<"analytics", "page_views">>, to |-> <<"auth", "users">>, cardinality |-> "many-to-one", relationName |-> NoRelationName,
      fields |-> <<"user_id">>, references |-> <<"id">>],
     [name |-> "session", from |-> <<"analytics", "page_views">>, to |-> <<"auth", "sessions">>, cardinality |-> "many-to-one", relationName |-> NoRelationName,
      fields |-> <<"session_id">>, references |-> <<"id">>] >>

\* src/drizzle/postgresql/advanced/schema.ts:428-433  adminAuditLogsRelations
pgAdvanced_adminAuditLogsRelations ==
  << [name |-> "user", from |-> <<"admin", "audit_logs">>, to |-> <<"auth", "users">>, cardinality |-> "many-to-one", relationName |-> NoRelationName,
      fields |-> <<"user_id">>, references |-> <<"id">>] >>

\* src/drizzle/postgresql/advanced/schema.ts: the file's declarations, in file order
pgAdvanced_declarations ==
  [namespaces |->
     <<pgAdvanced_authSchema, pgAdvanced_publicSchema, pgAdvanced_analyticsSchema, pgAdvanced_adminSchema>>,
   tables |->
     <<pgAdvanced_authUsers,
       pgAdvanced_authSessions,
       pgAdvanced_publicEvents,
       pgAdvanced_publicBookings,
       pgAdvanced_analyticsPageViews,
       pgAdvanced_adminAuditLogs,
       pgAdvanced_publicProjects,
       pgAdvanced_publicDepartments,
       pgAdvanced_publicEmployees,
       pgAdvanced_publicVeryLongTableNameThatIsNearThePostgreSQLLimitOfSixtyThree,
       pgAdvanced_publicOrder>>,
   relations |->
     <<pgAdvanced_authUsersRelations,
       pgAdvanced_authSessionsRelations,
       pgAdvanced_publicEventsRelations,
       pgAdvanced_publicBookingsRelations,
       pgAdvanced_publicProjectsRelations,
       pgAdvanced_publicDepartmentsRelations,
       pgAdvanced_publicEmployeesRelations,
       pgAdvanced_analyticsPageViewsRelations,
       pgAdvanced_adminAuditLogsRelations>>]

\* ---- src/drizzle/mysql/advanced/schema.ts
\* src/drizzle/mysql/advanced/schema.ts:28  authSchema
mysqlAdvanced_authSchema ==
  "auth"

\* src/drizzle/mysql/advanced/schema.ts:31  publicSchema
mysqlAdvanced_publicSchema ==
  "public"

\* src/drizzle/mysql/advanced/schema.ts:34  analyticsSchema
mysqlAdvanced_analyticsSchema ==
  "analytics"

\* src/drizzle/mysql/advanced/schema.ts:37  adminSchema
mysqlAdvanced_adminSchema ==
  "admin"

\* src/drizzle/mysql/advanced/schema.ts:43-65  authUsers
mysqlAdvanced_authUsers ==
  [ns |-> "auth", name |-> "users",
   columns |-> <<
       [name |-> "id", notNull |-> FALSE],
       [name |-> "email", notNull |-> TRUE],
       [name |-> "password_hash", notNull |-> TRUE],
       [name |-> "is_email_verified", notNull |-> TRUE],
       [name |-> "email_verification_token", notNull |-> FALSE],
       [name |-> "password_reset_token", notNull |-> FALSE],
       [name |-> "password_reset_expires_at", notNull |-> FALSE],
       [name |-> "last_login_at", notNull |-> FALSE],
       [name |-> "login_attempts", notNull |-> TRUE],
       [name |-> "locked_until", notNull |-> FALSE],
       [name |-> "created_at", notNull |-> TRUE],
       [name |-> "updated_at", notNull |-> TRUE] >>,
   primaryKey |-> <<"id">>,
   uniques |-> {[name |-> "users_email_unique", columns |-> <<"email">>]},
   indexes |-> {[name |-> "auth_users_email_idx", columns |-> <<"email">>, unique |-> TRUE, where |-> {}],
       [name |-> "auth_users_verification_token_idx", columns |-> <<"email_verification_token">>, unique |-> FALSE, where |-> {}],
       [name |-> "auth_users_reset_token_idx", columns |-> <<"password_reset_token">>, unique |-> FALSE, where |-> {}],
       [name |-> "auth_users_locked_accounts_idx", columns |-> <<"locked_until">>, unique |-> FALSE, where |-> {}]},
   checks |-> {[name |-> "auth_users_login_attempts_check", columns |-> {"login_attempts"}]},
   foreignKeys |-> <<>>]

\* src/drizzle/mysql/advanced/schema.ts:67-87  authSessions
mysqlAdvanced_authSessions ==
  [ns |-> "auth", name |-> "sessions",
   columns |-> <<
       [name |-> "id", notNull |-> FALSE],
       [name |-> "user_id", notNull |-> TRUE],
       [name |-> "token", notNull |-> TRUE],
       [name |-> "expires_at", notNull |-> TRUE],
       [name |-> "ip_address", notNull |-> FALSE],
       [name |-> "user_agent", notNull |-> FALSE],
       [name |-> "is_active", notNull |-> TRUE],
       [name |-> "created_at", notNull |-> TRUE] >>,
   primaryKey |-> <<"id">>,
   uniques |-> {[name |-> "sessions_token_unique", columns |-> <<"token">>]},
   indexes |-> {[name |-> "auth_sessions_user_id_idx", columns |-> <<"user_id">>, unique |-> FALSE, where |-> {}],
       [name |-> "auth_sessions_token_idx", columns |-> <<"token">>, unique |-> TRUE, where |-> {}],
       [name |-> "auth_sessions_active_idx", columns |-> <<"user_id", "expires_at", "is_active">>, unique |-> FALSE, where |-> {}]},
   checks |-> {[name |-> "auth_sessions_expiration_check", columns |-> {"created_at", "expires_at"}]},
   foreignKeys |-> <<[source |-> <<"auth", "sessions">>, sourceColumns |-> <<"user_id">>, target |-> <<"auth", "users">>, targetColumns |-> <<"id">>,
        onDelete |-> "cascade", onUpdate |-> "cascade"]>>]

\* src/drizzle/mysql/advanced/schema.ts:93-141  publicEvents
mysqlAdvanced_publicEvents ==
  [ns |-> "public", name |-> "events",
   columns |-> <<
       [name |-> "id", notNull |-> FALSE],
       [name |-> "title", notNull |-> TRUE],
       [name |-> "description", notNull |-> FALSE],
       [name |-> "start_date", notNull |-> TRUE],
       [name |-> "end_date", notNull |-> TRUE],
       [name |-> "start_time", notNull |-> FALSE],
       [name |-> "end_time", notNull |-> FALSE],
       [name |-> "min_price", notNull |-> FALSE],
       [name |-> "max_price", notNull |-> FALSE],
       [name |-> "min_participants", notNull |-> FALSE],
       [name |-> "max_participants", notNull |-> FALSE],
       [name |-> "min_age", notNull |-> FALSE],
       [name |-> "max_age", notNull |-> FALSE],
       [name |-> "location", notNull |-> FALSE],
       [name |-> "organizer_id", notNull |-> FALSE],
       [name |-> "current_participants", notNull |-> TRUE],
       [name |-> "is_public", notNull |-> TRUE],
       [name |-> "tags", notNull |-> FALSE],
       [name |-> "metadata", notNull |-> FALSE],
       [name |-> "created_at", notNull |-> TRUE],
       [name |-> "updated_at", notNull |-> TRUE] >>,
   primaryKey |-> <<"id">>,
   uniques |-> {},
   indexes |-> {[name |-> "events_date_range_idx", columns |-> <<"start_date", "end_date">>, unique |-> FALSE, where |-> {}],
       [name |-> "events_time_range_idx", columns |-> <<"start_time", "end_time">>, unique |-> FALSE, where |-> {}],
       [name |-> "events_organizer_idx", columns |-> <<"organizer_id">>, unique |-> FALSE, where |-> {}],
       [name |-> "events_public_idx", columns |-> <<"is_public">>, unique |-> FALSE, where |-> {}],
       [name |-> "events_tags_idx", columns |-> <<"tags">>, unique |-> FALSE, where |-> {}]},
   checks |-> {[name |-> "events_participants_check", columns |-> {"current_participants", "max_participants"}],
       [name |-> "events_max_participants_check", columns |-> {"max_participants"}],
       [name |-> "events_date_range_check", columns |-> {"end_date", "start_date"}],
       [name |-> "events_time_range_check", columns |-> {"end_time", "start_time"}],
       [name |-> "events_price_range_check", columns |-> {"max_price", "min_price"}],
       [name |-> "events_age_range_check", columns |-> {"max_age", "min_age"}]},
   foreignKeys |-> <<[source |-> <<"public", "events">>, sourceColumns |-> <<"organizer_id">>, target |-> <<"auth", "users">>, targetColumns |-> <<"id">>,
        onDelete |-> "restrict", onUpdate |-> "cascade"]>>]

\* src/drizzle/mysql/advanced/schema.ts:143-174  publicBookings
mysqlAdvanced_publicBookings ==
  [ns |-> "public", name |-> "bookings",
   columns |-> <<
       [name |-> "id", notNull |-> FALSE],
       [name |-> "event_id", notNull |-> TRUE],
       [name |-> "user_id", notNull |-> TRUE],
       [name |-> "booking_start_time", notNull |-> TRUE],
       [name |-> "booking_end_time", notNull |-> TRUE],
       [name |-> "participant_count", notNull |-> TRUE],
       [name |-> "total_price", notNull |-> TRUE],
       [name |-> "status", notNull |-> TRUE],
       [name |-> "notes", notNull |-> FALSE],
       [name |-> "created_at", notNull |-> TRUE],
       [name |-> "updated_at", notNull |-> TRUE] >>,
   primaryKey |-> <<"id">>,
   uniques |-> {[name |-> "bookings_event_user_time_unique", columns |-> <<"event_id", "user_id", "booking_start_time">>]},
   indexes |-> {[name |-> "bookings_event_user_idx", columns |-> <<"event_id", "user_id">>, unique |-> FALSE, where |-> {}],
       [name |-> "bookings_user_idx", columns |-> <<"user_id">>, unique |-> FALSE, where |-> {}],
       [name |-> "bookings_time_range_idx", columns |-> <<"booking_start_time", "booking_end_time">>, unique |-> FALSE, where |-> {}],
       [name |-> "bookings_status_idx", columns |-> <<"status">>, unique |-> FALSE, where |-> {}]},
   checks |-> {[name |-> "bookings_participant_count_check", columns |-> {"participant_count"}],
       [name |-> "bookings_total_price_check", columns |-> {"total_price"}],
       [name |-> "bookings_time_range_check", columns |-> {"booking_end_time", "booking_start_time"}]},
   foreignKeys |-> <<[source |-> <<"public", "bookings">>, sourceColumns |-> <<"event_id">>, target |-> <<"public", "events">>, targetColumns |-> <<"id">>,
        onDelete |-> "cascade", onUpdate |-> "cascade"],
       [source |-> <<"public", "bookings">>, sourceColumns |-> <<"user_id">>, target |-> <<"auth", "users">>, targetColumns |-> <<"id">>,
        onDelete |-> "restrict", onUpdate |-> "cascade"]>>]

\* src/drizzle/mysql/advanced/schema.ts:180-205  analyticsPageViews
mysqlAdvanced_analyticsPageViews ==
  [ns |-> "analytics", name |-> "page_views",
   columns |-> <<
       [name |-> "id", notNull |-> FALSE],
       [name |-> "user_id", notNull |-> FALSE],
       [name |-> "session_id", notNull |-> FALSE],
       [name |-> "url", notNull |-> TRUE],
       [name |-> "referrer", notNull |-> FALSE],
       [name |-> "user_agent", notNull |-> FALSE],
       [name |-> "ip_address", notNull |-> FALSE],
       [name |-> "country_code", notNull |-> FALSE],
       [name |-> "duration", notNull |-> FALSE],
       [name |-> "viewed_at", notNull |-> TRUE] >>,
   primaryKey |-> <<"id">>,
   uniques |-> {},
   indexes |-> {[name |-> "analytics_page_views_user_id_idx", columns |-> <<"user_id">>, unique |-> FALSE, where |-> {}],
       [name |-> "analytics_page_views_session_id_idx", columns |-> <<"session_id">>, unique |-> FALSE, where |-> {}],
       [name |-> "analytics_page_views_url_idx", columns |-> <<"url">>, unique |-> FALSE, where |-> {}],
       [name |-> "analytics_page_views_viewed_at_idx", columns |-> <<"viewed_at">>, unique |-> FALSE, where |-> {}],
       [name |-> "analytics_page_views_country_idx", columns |-> <<"country_code">>, unique |-> FALSE, where |-> {}],
       [name |-> "analytics_page_views_url_date_idx", columns |-> <<"url", "viewed_at">>, unique |-> FALSE, where |-> {}]},
   checks |-> {},
   foreignKeys |-> <<[source |-> <<"analytics", "page_views">>, sourceColumns |-> <<"user_id">>, target |-> <<"auth", "users">>, targetColumns |-> <<"id">>,
        onDelete |-> "set null", onUpdate |-> "cascade"],
       [source |-> <<"analytics", "page_views">>, sourceColumns |-> <<"session_id">>, target |-> <<"auth", "sessions">>, targetColumns |-> <<"id">>,
        onDelete |-> "set null", onUpdate |-> "cascade"]>>]

\* src/drizzle/mysql/advanced/schema.ts:211-232  adminAuditLogs
mysqlAdvanced_adminAuditLogs ==
  [ns |-> "admin", name |-> "audit_logs",
   columns |-> <<
       [name |-> "id", notNull |-> FALSE],
       [name |-> "user_id", notNull |-> FALSE],
       [name |-> "action", notNull |-> TRUE],
       [name |-> "table_name", notNull |-> FALSE],
       [name |-> "record_id", notNull |-> FALSE],
       [name |-> "old_values", notNull |-> FALSE],
       [name |-> "new_values", notNull |-> FALSE],
       [name |-> "ip_address", notNull |-> FALSE],
       [name |-> "user_agent", notNull |-> FALSE],
       [name |-> "performed_at", notNull |-> TRUE] >>,
   primaryKey |-> <<"id">>,
   uniques |-> {},
   indexes |-> {[name |-> "admin_audit_logs_user_id_idx", columns |-> <<"user_id">>, unique |-> FALSE, where |-> {}],
       [name |-> "admin_audit_logs_action_idx", columns |-> <<"action">>, unique |-> FALSE, where |-> {}],
       [name |-> "admin_audit_logs_table_name_idx", columns |-> <<"table_name">>, unique |-> FALSE, where |-> {}],
       [name |-> "admin_audit_logs_performed_at_idx", columns |-> <<"performed_at">>, unique |-> FALSE, where |-> {}],
       [name |-> "admin_audit_logs_table_record_idx", columns |-> <<"table_name", "record_id">>, unique |-> FALSE, where |-> {}]},
   checks |-> {},
   foreignKeys |-> <<[source |-> <<"admin", "audit_logs">>, sourceColumns |-> <<"user_id">>, target |-> <<"auth", "users">>, targetColumns |-> <<"id">>,
        onDelete |-> "restrict", onUpdate |-> "cascade"]>>]

\* src/drizzle/mysql/advanced/schema.ts:238-263  publicProjects
mysqlAdvanced_publicProjects ==
  [ns |-> "public", name |-> "projects",
   columns |-> <<
       [name |-> "id", notNull |-> FALSE],
       [name |-> "name", notNull |-> TRUE],
       [name |-> "owner_id", notNull |-> TRUE],
       [name |-> "manager_id", notNull |-> FALSE],
       [name |-> "status", notNull |-> TRUE],
       [name |-> "budget", notNull |-> FALSE],
       [name |-> "start_date", notNull |-> FALSE],
       [name |-> "end_date", notNull |-> FALSE],
       [name |-> "created_at", notNull |-> TRUE],
       [name |-> "updated_at", notNull |-> TRUE] >>,
   primaryKey |-> <<"id">>,
   uniques |-> {},
   indexes |-> {[name |-> "projects_owner_idx", columns |-> <<"owner_id">>, unique |-> FALSE, where |-> {}],
       [name |-> "projects_manager_idx", columns |-> <<"manager_id">>, unique |-> FALSE, where |-> {}],
       [name |-> "projects_status_idx", columns |-> <<"status">>, unique |-> FALSE, where |-> {}]},
   checks |-> {[name |-> "projects_date_range_check", columns |-> {"end_date", "start_date"}],
       [name |-> "projects_budget_check", columns |-> {"budget"}]},
   foreignKeys |-> <<[source |-> <<"public", "projects">>, sourceColumns |-> <<"owner_id">>, target |-> <<"auth", "users">>, targetColumns |-> <<"id">>,
        onDelete |-> "restrict", onUpdate |-> "cascade"],
       [source |-> <<"public", "projects">>, sourceColumns |-> <<"manager_id">>, target |-> <<"auth", "users">>, targetColumns |-> <<"id">>,
        onDelete |-> "set null", onUpdate |-> "cascade"]>>]

\* src/drizzle/mysql/advanced/schema.ts:269-279  publicDepartments
mysqlAdvanced_publicDepartments ==
  [ns |-> "public", name |-> "departments",
   columns |-> <<
       [name |-> "id", notNull |-> FALSE],
       [name |-> "name", notNull |-> TRUE],
       [name |-> "manager_id", notNull |-> FALSE],
       [name |-> "parent_department_id", notNull |-> FALSE],
       [name |-> "budget", notNull |-> FALSE],
       [name |-> "created_at", notNull |-> TRUE] >>,
   primaryKey |-> <<"id">>,
   uniques |-> {},
   indexes |-> {[name |-> "departments_manager_idx", columns |-> <<"manager_id">>, unique |-> FALSE, where |-> {}],
       [name |-> "departments_parent_idx", columns |-> <<"parent_department_id">>, unique |-> FALSE, where |-> {}]},
   checks |-> {},
   foreignKeys |-> <<>>]

\* src/drizzle/mysql/advanced/schema.ts:281-306  publicEmployees
mysqlAdvanced_publicEmployees ==
  [ns |-> "public", name |-> "employees",
   columns |-> <<
       [name |-> "id", notNull |-> FALSE],
       [name |-> "user_id", notNull |-> TRUE],
       [name |-> "employee_number", notNull |-> TRUE],
       [name |-> "department_id", notNull |-> FALSE],
       [name |-> "manager_id", notNull |-> FALSE],
       [name |-> "position", notNull |-> FALSE],
       [name |-> "salary", notNull |-> FALSE],
       [name |-> "hire_date", notNull |-> TRUE],
       [name |-> "termination_date", notNull |-> FALSE],
       [name |-> "is_active", notNull |-> TRUE] >>,
   primaryKey |-> <<"id">>,
   uniques |-> {[name |-> "employees_user_id_unique", columns |-> <<"user_id">>], [name |-> "employees_employee_number_unique", columns |-> <<"employee_number">>]},
   indexes |-> {[name |-> "employees_user_id_idx", columns |-> <<"user_id">>, unique |-> TRUE, where |-> {}],
       [name |-> "employees_employee_number_idx", columns |-> <<"employee_number">>, unique |-> TRUE, where |-> {}],
       [name |-> "employees_department_idx", columns |-> <<"department_id">>, unique |-> FALSE, where |-> {}],
       [name |-> "employees_manager_idx", columns |-> <<"manager_id">>, unique |-> FALSE, where |-> {}],
       [name |-> "employees_active_idx", columns |-> <<"is_active">>, unique |-> FALSE, where |-> {}]},
   checks |-> {[name |-> "employees_salary_check", columns |-> {"salary"}],
       [name |-> "employees_dates_check", columns |-> {"hire_date", "termination_date"}]},
   foreignKeys |-> <<[source |-> <<"public", "employees">>, sourceColumns |-> <<"user_id">>, target |-> <<"auth", "users">>, targetColumns |-> <<"id">>,
        onDelete |-> "cascade", onUpdate |-> "cascade"]>>]

\* src/drizzle/mysql/advanced/schema.ts:313-316  publicVeryLongTableNameThatIsNearTheMySQLLimitOfSixtyFour
mysqlAdvanced_publicVeryLongTableNameThatIsNearTheMySQLLimitOfSixtyFour ==
  [ns |-> "public", name |-> "very_long_table_name_that_is_near_the_mysql_limit_of_64",
   columns |-> <<
       [name |-> "id", notNull |-> FALSE],
       [name |-> "very_long_column_name_that_is_also_near_the_limit", notNull |-> FALSE] >>,
   primaryKey |-> <<"id">>,
   uniques |-> {},
   indexes |-> {},
   checks |-> {},
   foreignKeys |-> <<>>]

\* src/drizzle/mysql/advanced/schema.ts:319-327  publicOrder
mysqlAdvanced_publicOrder ==
  [ns |-> "public", name |-> "order",
   columns |-> <<
       [name |-> "id", notNull |-> FALSE],
       [name |-> "user", notNull |-> FALSE],
       [name |-> "group", notNull |-> FALSE],
       [name |-> "table", notNull |-> FALSE] >>,
   primaryKey |-> <<"id">>,
   uniques |-> {},
   indexes |-> {[name |-> "order_user_idx", columns |-> <<"user">>, unique |-> FALSE, where |-> {}]},
   checks |-> {},
   foreignKeys |-> <<>>]

\* src/drizzle/mysql/advanced/schema.ts:333-342  authUsersRelations
mysqlAdvanced_authUsersRelations ==
  << [name |-> "sessions", from |-> <<"auth", "users">>, to |-> <<"auth", "sessions">>, cardinality |-> "one-to-many", relationName |-> NoRelationName,
      fields |-> <<>>, references |-> <<>>],
     [name |-> "events", from |-> <<"auth", "users">>, to |-> <<"public", "events">>, cardinality |-> "one-to-many", relationName |-> NoRelationName,
      fields |-> <<>>, references |-> <<>>],
     [name |-> "bookings", from |-> <<"auth", "users">>, to |-> <<"public", "bookings">>, cardinality |-> "one-to-many", relationName |-> NoRelationName,
      fields |-> <<>>, references |-> <<>>],
     [name |-> "pageViews", from |-> <<"auth", "users">>, to |-> <<"analytics", "page_views">>, cardinality |-> "one-to-many", relationName |-> NoRelationName,
      fields |-> <<>>, references |-> <<>>],
     [name |-> "auditLogs", from |-> <<"auth", "users">>, to |-> <<"admin", "audit_logs">>, cardinality |-> "one-to-many", relationName |-> NoRelationName,
      fields |-> <<>>, references |-> <<>>],
     [name |-> "ownedProjects", from |-> <<"auth", "users">>, to |-> <<"public", "projects">>, cardinality |-> "one-to-many", relationName |-> "ProjectOwner",
      fields |-> <<>>, references |-> <<>>],
     [name |-> "managedProjects", from |-> <<"auth", "users">>, to |-> <<"public", "projects">>, cardinality |-> "one-to-many", relationName |-> "ProjectManager",
      fields |-> <<>>, references |-> <<>>],
     [name |-> "employee", from |-> <<"auth", "users">>, to |-> <<"public", "employees">>, cardinality |-> "one-to-many", relationName |-> NoRelationName,
      fields |-> <<>>, references |-> <<>>] >>

\* src/drizzle/mysql/advanced/schema.ts:344-350  authSessionsRelations
mysqlAdvanced_authSessionsRelations ==
  << [name |-> "user", from |-> <<"auth", "sessions">>, to |-> <<"auth", "users">>, cardinality |-> "many-to-one", relationName |-> NoRelationName,
      fields |-> <<"user_id">>, references |-> <<"id">>],
     [name |-> "pageViews", from |-> <<"auth", "sessions">>, to |-> <<"analytics", "page_views">>, cardinality |-> "one-to-many", relationName |-> NoRelationName,
      fields |-> <<>>, references |-> <<>>] >>

\* src/drizzle/mysql/advanced/schema.ts:352-358  publicEventsRelations
mysqlAdvanced_publicEventsRelations ==
  << [name |-> "organizer", from |-> <<"public", "events">>, to |-> <<"auth", "users">>, cardinality |-> "many-to-one", relationName |-> NoRelationName,
      fields |-> <<"organizer_id">>, references |-> <<"id">>],
     [name |-> "bookings", from |-> <<"public", "events">>, to |-> <<"public", "bookings">>, cardinality |-> "one-to-many", relationName |-> NoRelationName,
      fields |-> <<>>, references |-> <<>>] >>

\* src/drizzle/mysql/advanced/schema.ts:360-369  publicBookingsRelations
mysqlAdvanced_publicBookingsRelations ==
  << [name |-> "event", from |-> <<"public", "bookings">>, to |-> <<"public", "events">>, cardinality |-> "many-to-one", relationName |-> NoRelationName,
      fields |-> <<"event_id">>, references |-> <<"id">>],
     [name |-> "user", from |-> <<"public", "bookings">>, to |-> <<"auth", "users">>, cardinality |-> "many-to-one", relationName |-> NoRelationName,
      fields |-> <<"user_id">>, references |-> <<"id">>] >>

\* src/drizzle/mysql/advanced/schema.ts:371-382  publicProjectsRelations
mysqlAdvanced_publicProjectsRelations ==
  << [name |-> "owner", from |-> <<"public", "projects">>, to |-> <<"auth", "users">>, cardinality |-> "many-to-one", relationName |-> "ProjectOwner",
      fields |-> <<"owner_id">>, references |-> <<"id">>],
     [name |-> "manager", from |-> <<"public", "projects">>, to |-> <<"auth", "users">>, cardinality |-> "many-to-one", relationName |-> "ProjectManager",
      fields |-> <<"manager_id">>, references |-> <<"id">>] >>

\* src/drizzle/mysql/advanced/schema.ts:384-394  publicDepartmentsRelations
mysqlAdvanced_publicDepartmentsRelations ==
  << [name |-> "parent", from |-> <<"public", "departments">>, to |-> <<"public", "departments">>, cardinality |-> "many-to-one", relationName |-> "DepartmentHierarchy",
      fields |-> <<"parent_department_id">>, references |-> <<"id">>],
     [name |-> "children", from |-> <<"public", "departments">>, to |-> <<"public", "departments">>, cardinality |-> "one-to-many", relationName |-> "DepartmentHierarchy",
      fields |-> <<>>, references |-> <<>>],
     [name |-> "employees", from |-> <<"public", "departments">>, to |-> <<"public", "employees">>, cardinality |-> "one-to-many", relationName |-> NoRelationName,
      fields |-> <<>>, references |-> <<>>] >>

\* src/drizzle/mysql/advanced/schema.ts:396-409  publicEmployeesRelations
mysqlAdvanced_publicEmployeesRelations ==
  << [name |-> "user", from |-> <<"public", "employees">>, to |-> <<"auth", "users">>, cardinality |-> "many-to-one", relationName |-> NoRelationName,
      fields |-> <<"user_id">>, references |-> <<"id">>],
     [name |-> "manager", from |-> <<"public", "employees">>, to |-> <<"public", "employees">>, cardinality |-> "many-to-one", relationName |-> "EmployeeHierarchy",
      fields |-> <<"manager_id">>, references |-> <<"id">>],
     [name |-> "subordinates", from |-> <<"public", "employees">>, to |-> <<"public", "employees">>, cardinality |-> "one-to-many", relationName |-> "EmployeeHierarchy",
      fields |-> <<>>, references |-> <<>>] >>

\* src/drizzle/mysql/advanced/schema.ts:411-420  analyticsPageViewsRelations
mysqlAdvanced_analyticsPageViewsRelations ==
  << [name |-> "user", from |-> <<"analytics", "page_views">>, to |-> <<"auth", "users">>, cardinality |-> "many-to-one", relationName |-> NoRelationName,
      fields |-> <<"user_id">>, references |-> <<"id">>],
     [name |-> "session", from |-> <<"analytics", "page_views">>, to |-> <<"auth", "sessions">>, cardinality |-> "many-to-one", relationName |-> NoRelationName,
      fields |-> <<"session_id">>, references |-> <<"id">>] >>

\* src/drizzle/mysql/advanced/schema.ts:422-427  adminAuditLogsRelations
mysqlAdvanced_adminAuditLogsRelations ==
  << [name |-> "user", from |-> <<"admin", "audit_logs">>, to |-> <<"auth", "users">>, cardinality |-> "many-to-one", relationName |-> NoRelationName,
      fields |-> <<"user_id">>, references |-> <<"id">>] >>

\* src/drizzle/mysql/advanced/schema.ts: the file's declarations, in file order
mysqlAdvanced_declarations ==
  [namespaces |->
     <<mysqlAdvanced_authSchema, mysqlAdvanced_publicSchema, mysqlAdvanced_analyticsSchema, mysqlAdvanced_adminSchema>>,
   tables |->
     <<mysqlAdvanced_authUsers,
       mysqlAdvanced_authSessions,
       mysqlAdvanced_publicEvents,
       mysqlAdvanced_publicBookings,
       mysqlAdvanced_analyticsPageViews,
       mysqlAdvanced_adminAuditLogs,
       mysqlAdvanced_publicProjects,
       mysqlAdvanced_publicDepartments,
       mysqlAdvanced_publicEmployees,
       mysqlAdvanced_publicVeryLongTableNameThatIsNearTheMySQLLimitOfSixtyFour,
       mysqlAdvanced_publicOrder>>,
   relations |->
     <<mysqlAdvanced_authUsersRelations,
       mysqlAdvanced_authSessionsRelations,
       mysqlAdvanced_publicEventsRelations,
       mysqlAdvanced_publicBookingsRelations,
       mysqlAdvanced_publicProjectsRelations,
       mysqlAdvanced_publicDepartmentsRelations,
       mysqlAdvanced_publicEmployeesRelations,
       mysqlAdvanced_analyticsPageViewsRelations,
       mysqlAdvanced_adminAuditLogsRelations>>]

\* ---- src/unnamed/part_000
\* src/unnamed/part_000:3-12  projectUsers
mysqlProject_projectUsers ==
  [ns |-> DefaultNamespace, name |-> "project_users",
   columns |-> <<
       [name |-> "project_id", notNull |-> TRUE],
       [name |-> "user_id", notNull |-> TRUE] >>,
   primaryKey |-> <<"project_id", "user_id">>,
   uniques |-> {},
   indexes |-> {},
   checks |-> {},
   foreignKeys |-> <<>>]

\* src/unnamed/part_000:14-27  projectTasks
mysqlProject_projectTasks ==
  [ns |-> DefaultNamespace, name |-> "project_tasks",
   columns |-> <<
       [name |-> "project_id", notNull |-> TRUE],
       [name |-> "user_id", notNull |-> TRUE],
       [name |-> "task_id", notNull |-> TRUE] >>,
   primaryKey |-> <<>>,
   uniques |-> {},
   indexes |-> {},
   checks |-> {},
   foreignKeys |-> <<[source |-> <<DefaultNamespace, "project_tasks">>, sourceColumns |-> <<"project_id", "user_id">>, target |-> <<DefaultNamespace, "project_users">>, targetColumns |-> <<"project_id", "user_id">>,
        onDelete |-> "no action", onUpdate |-> "no action"]>>]

\* src/unnamed/part_000: the file's declarations, in file order
mysqlProject_declarations ==
  [namespaces |->
     <<>>,
   tables |->
     <<mysqlProject_projectUsers,
       mysqlProject_projectTasks>>,
   relations |->
     <<>>]

(***************************************************************************)
(* The fixture files and the calls each one makes                          *)
(***************************************************************************)
NoFixture == "none"

Fixtures == {"pgComposite", "mysqlComposite", "pgAdvanced", "mysqlAdvanced", "mysqlProject"}

\* What a fixture file declares, in file order.
FixtureFile(f) ==
  CASE f = "pgComposite" -> pgComposite_declarations
    [] f = "mysqlComposite" -> mysqlComposite_declarations
    [] f = "pgAdvanced" -> pgAdvanced_declarations
    [] f = "mysqlAdvanced" -> mysqlAdvanced_declarations
    [] f = "mysqlProject" -> mysqlProject_declarations

Range(s) == {s[i] : i \in DOMAIN s}

RECURSIVE Flatten(_)
Flatten(ss) == IF ss = <<>> THEN <<>> ELSE Head(ss) \o Flatten(Tail(ss))

\* defineTable's arguments in a table declaration: everything but the
\* column-level references, which become defineForeignKey calls.
TableOf(d) ==
  [ns |-> d.ns, name |-> d.name, columns |-> d.columns, primaryKey |-> d.primaryKey,
   uniques |-> d.uniques, indexes |-> d.indexes, checks |-> d.checks]

\* defineRelationship's arguments in a relation declaration.
RelationshipOf(d) ==
  [from |-> d.from, to |-> d.to, cardinality |-> d.cardinality,
   relationName |-> d.relationName]

NoInput == [none |-> TRUE]

\* The calls a fixture file makes: names first, references after.
Script(f) ==
  LET ns == FixtureFile(f).namespaces
      ts == FixtureFile(f).tables
      fs == Flatten([i \in DOMAIN ts |-> ts[i].foreignKeys])
      rs == Flatten(FixtureFile(f).relations)
  IN    [i \in DOMAIN ns |-> [op |-> "defineNamespace", input |-> [ns |-> ns[i]]]]
     \o [i \in DOMAIN ts |-> [op |-> "defineTable", input |-> TableOf(ts[i])]]
     \o [i \in DOMAIN fs |-> [op |-> "defineForeignKey", input |-> fs[i]]]
     \o [i \in DOMAIN rs |-> [op |-> "defineRelationship", input |-> RelationshipOf(rs[i])]]
     \o << [op |-> "finalize", input |-> NoInput] >>

(***************************************************************************)
(* Data model (spec.md section 3)                                          *)
(***************************************************************************)
Cardinalities == {"one-to-one", "one-to-many", "many-to-one"}

ReferentialActions == {"cascade", "restrict", "set null", "set default", "no action"}

BlockingKinds ==
  {"ForeignKeyTargetNotUnique", "UnknownColumnReference", "UnpairedRelationName",
   "SelfReferenceRequiresRelationName"}

WarningKinds == {"RedundantUniqueConstraint"}

TableKey(t) == <<t.ns, t.name>>

ColumnNames(t) == {t.columns[i].name : i \in DOMAIN t.columns}

\* Every column a key, a constraint or an index of the declaration names.
ReferencedColumns(t) ==
  Range(t.primaryKey)
    \cup UNION {Range(u.columns) : u \in t.uniques}
    \cup UNION {Range(x.columns) \cup x.where : x \in t.indexes}
    \cup UNION {c.columns : c \in t.checks}

\* A primary-key member is non-nullable whatever its own flag says.
Nullable(t, c) ==
  /\ \E i \in DOMAIN t.columns : t.columns[i].name = c /\ ~t.columns[i].notNull
  /\ c \notin Range(t.primaryKey)

\* The column sets that identify a row: the primary key and the unique constraints.
UniqueKeySets(t) ==
  (IF t.primaryKey = <<>> THEN {} ELSE {Range(t.primaryKey)})
    \cup {Range(u.columns) : u \in t.uniques}

\* The named uniqueness scopes of a table, for the redundancy warning.
UniqueScopes(t) ==
  (IF t.primaryKey = <<>> THEN {} ELSE {[name |-> "PRIMARY", columns |-> Range(t.primaryKey)]})
    \cup {[name |-> u.name, columns |-> Range(u.columns)] : u \in t.uniques}
    \cup {[name |-> x.name, columns |-> Range(x.columns)] : x \in {y \in t.indexes : y.unique}}

\* Source column i is paired with target column i.
PairColumns(src, tgt) ==
  [i \in 1..(IF Len(src) < Len(tgt) THEN Len(src) ELSE Len(tgt)) |-> <<src[i], tgt[i]>>]

(***************************************************************************)
(* State                                                                   *)
(***************************************************************************)
VARIABLES
  namespaces,   \* the namespace names registered
  tables,       \* the tables registered (records as TableOf gives them)
  fks,          \* the foreign keys registered, each with its column pairs
  rels,         \* the relationships registered: a bag, a declaration may repeat
  held,         \* the Schema snapshot the caller holds, or NoSchema
  last,         \* the call that has just returned and what it returned, or NoCall
  fixture,      \* the fixture file being loaded, or NoFixture
  pc            \* the next call of the fixture's script

vars == <<namespaces, tables, fks, rels, held, last, fixture, pc>>

NoSchema == [none |-> TRUE]

NoCall == [op |-> "none", input |-> NoInput, errors |-> {}, result |-> {}]

Registered(k) == \E t \in tables : TableKey(t) = k

TableAt(ts, k) == CHOOSE t \in ts : TableKey(t) = k

(***************************************************************************)
(* Schema Builder (spec.md section 4.1).  A failing call reports every     *)
(* rule of that call the input breaks and registers nothing.               *)
(***************************************************************************)
defineNamespaceErrors(n) ==
  IF n \in namespaces THEN {"DuplicateNamespace"} ELSE {}

defineNamespace(n) ==
  LET errs == defineNamespaceErrors(n) IN
  /\ namespaces' = IF errs = {} THEN namespaces \cup {n} ELSE namespaces
  /\ last' = [op |-> "defineNamespace", input |-> [ns |-> n], errors |-> errs, result |-> {}]
  /\ UNCHANGED <<tables, fks, rels, held>>

DuplicateTableNameCheck(t) ==
  IF Registered(TableKey(t)) THEN {"DuplicateTableName"} ELSE {}

DuplicateColumnNameCheck(t) ==
  IF \E i, j \in DOMAIN t.columns : i # j /\ t.columns[i].name = t.columns[j].name
  THEN {"DuplicateColumnName"} ELSE {}

UnknownColumnReferenceCheck(t) ==
  IF ReferencedColumns(t) \subseteq ColumnNames(t) THEN {} ELSE {"UnknownColumnReference"}

defineTableErrors(t) ==
  DuplicateTableNameCheck(t) \cup DuplicateColumnNameCheck(t) \cup UnknownColumnReferenceCheck(t)

\* A defineTable that adds the table to the Schema already returned as well:
\* the in-place mutation spec.md section 5 rules out.
defineTable_inPlace(t) ==
  LET errs == defineTableErrors(t) IN
  /\ t.ns \in namespaces
  /\ tables' = IF errs = {} THEN tables \cup {t} ELSE tables
  /\ held' = IF errs = {} /\ held # NoSchema THEN [held EXCEPT !.tables = @ \cup {t}] ELSE held
  /\ last' = [op |-> "defineTable", input |-> t, errors |-> errs, result |-> {}]
  /\ UNCHANGED <<namespaces, fks, rels>>

defineTable(t) ==
  LET errs == defineTableErrors(t) IN
  /\ t.ns \in namespaces
  /\ tables' = IF errs = {} THEN tables \cup {t} ELSE tables
  /\ last' = [op |-> "defineTable", input |-> t, errors |-> errs, result |-> {}]
  /\ UNCHANGED <<namespaces, fks, rels, held>>

\* The target columns are, as a set, the primary key or a unique constraint of
\* the target table.  An unregistered target table has no key at all.
TargetIsUniqueKey(ts, fk) ==
  /\ \E t \in ts : TableKey(t) = fk.target
  /\ Range(fk.targetColumns) \in UniqueKeySets(TableAt(ts, fk.target))

ForeignKeyLengthCheck(fk) ==
  IF Len(fk.sourceColumns) # Len(fk.targetColumns) THEN {"ForeignKeyLengthMismatch"} ELSE {}

\* A target table not registered yet is resolved by finalize.
ForeignKeyTargetCheck(fk) ==
  IF Registered(fk.target) /\ ~TargetIsUniqueKey(tables, fk)
  THEN {"ForeignKeyTargetNotUnique"} ELSE {}

ForeignKeySetNullCheck(fk) ==
  IF /\ "set null" \in {fk.onDelete, fk.onUpdate}
     /\ \E i \in DOMAIN fk.sourceColumns :
          ~Nullable(TableAt(tables, fk.source), fk.sourceColumns[i])
  THEN {"ForeignKeySetNullOnNonNullable"} ELSE {}

defineForeignKeyErrors(fk) ==
  ForeignKeyLengthCheck(fk) \cup ForeignKeyTargetCheck(fk) \cup ForeignKeySetNullCheck(fk)

ForeignKeyRecord(fk) ==
  [source |-> fk.source, sourceColumns |-> fk.sourceColumns,
   target |-> fk.target, targetColumns |-> fk.targetColumns,
   onDelete |-> fk.onDelete, onUpdate |-> fk.onUpdate,
   pairs |-> PairColumns(fk.sourceColumns, fk.targetColumns)]

defineForeignKey(fk) ==
  LET errs == defineForeignKeyErrors(fk) IN
  /\ Registered(fk.source)
  /\ Range(fk.sourceColumns) \subseteq ColumnNames(TableAt(tables, fk.source))
  /\ fks' = IF errs = {} THEN fks \cup {ForeignKeyRecord(fk)} ELSE fks
  /\ last' = [op |-> "defineForeignKey", input |-> fk, errors |-> errs, result |-> {}]
  /\ UNCHANGED <<namespaces, tables, rels, held>>

\* A second untagged relationship from the same table to the same table.
AmbiguousRelationshipCheck(r) ==
  IF /\ r.relationName = NoRelationName
     /\ \E x \in BagToSet(rels) :
          x.from = r.from /\ x.to = r.to /\ x.relationName = NoRelationName
  THEN {"AmbiguousRelationship"} ELSE {}

\* Pairing checked at the call, as one sentence of spec.md section 4.1 reads,
\* against the propagation policy of section 7.
defineRelationshipErrors_eagerPairing(r) ==
  AmbiguousRelationshipCheck(r)
    \cup (IF /\ r.relationName # NoRelationName
              /\ ~\E x \in BagToSet(rels) :
                    x.from = r.to /\ x.to = r.from /\ x.relationName = r.relationName
           THEN {"UnpairedRelationName"} ELSE {})

defineRelationshipErrors(r) == AmbiguousRelationshipCheck(r)

defineRelationship(r) ==
  LET errs == defineRelationshipErrors(r) IN
  /\ Registered(r.from)
  /\ Registered(r.to)
  /\ rels' = IF errs = {} THEN rels (+) SetToBag({r}) ELSE rels
  /\ last' = [op |-> "defineRelationship", input |-> r, errors |-> errs, result |-> {}]
  /\ UNCHANGED <<namespaces, tables, fks, held>>

(***************************************************************************)
(* Whole-Schema Validator (spec.md section 4.2)                            *)
(***************************************************************************)
Violation(kind, subject) == [kind |-> kind, subject |-> subject]

ForeignKeyViolations(ts, fs) ==
  {Violation("ForeignKeyTargetNotUnique", fk) : fk \in {x \in fs : ~TargetIsUniqueKey(ts, x)}}

ColumnReferenceViolations(ts) ==
  {Violation("UnknownColumnReference", TableKey(t)) :
     t \in {x \in ts : ~(ReferencedColumns(x) \subseteq ColumnNames(x))}}

SelfReferenceViolations(rs) ==
  {Violation("SelfReferenceRequiresRelationName", r) :
     r \in {x \in BagToSet(rs) : x.from = x.to /\ x.relationName = NoRelationName}}

\* The relationships declared the other way round under the same tag, the
\* declaration r itself not counted.
CounterpartCount(rs, r) ==
  LET M == {x \in BagToSet(rs) :
              x.from = r.to /\ x.to = r.from /\ x.relationName = r.relationName}
  IN  BagCardinality([x \in M |-> rs[x]]) - (IF r \in M THEN 1 ELSE 0)

PairingViolations(rs) ==
  {Violation("UnpairedRelationName", r) :
     r \in {x \in BagToSet(rs) :
              x.relationName # NoRelationName /\ CounterpartCount(rs, x) # 1}}

RedundantUniqueViolations(ts) ==
  {Violation("RedundantUniqueConstraint", <<TableKey(t), s.columns>>) :
     <<t, s>> \in {<<x, y>> \in UNION {{<<x, y>> : y \in UniqueScopes(x)} : x \in ts} :
                     \E z \in UniqueScopes(x) : z.name # y.name /\ z.columns = y.columns}}

Validate(ts, fs, rs) ==
  ForeignKeyViolations(ts, fs) \cup ColumnReferenceViolations(ts)
    \cup SelfReferenceViolations(rs) \cup PairingViolations(rs)
    \cup RedundantUniqueViolations(ts)

Blocking(report) == {v \in report : v.kind \in BlockingKinds}

Snapshot == [namespaces |-> namespaces, tables |-> tables, fks |-> fks, rels |-> rels]

finalize ==
  LET report == Validate(tables, fks, rels)
      failed == Blocking(report) # {}
  IN  /\ held' = IF failed THEN held ELSE Snapshot
      /\ last' = [op |-> "finalize", input |-> NoInput,
                  errors |-> IF failed THEN {"SchemaValidationError"} ELSE {},
                  result |-> report]
      /\ UNCHANGED <<namespaces, tables, fks, rels>>

(***************************************************************************)
(* Read-only traversal of a finalized Schema (spec.md section 6)           *)
(***************************************************************************)
\* The relationships of a table that carry the given tag, with their counts.
RelationshipsOf(schema, k, tag) ==
  LET M == {r \in BagToSet(schema.rels) : r.from = k /\ r.relationName = tag}
  IN  [r \in M |-> schema.rels[r]]

listRelationships(k, tag) ==
  /\ held # NoSchema
  /\ \E t \in held.tables : TableKey(t) = k
  /\ last' = [op |-> "listRelationships", input |-> [table |-> k, relationName |-> tag],
              errors |-> {}, result |-> RelationshipsOf(held, k, tag)]
  /\ UNCHANGED <<namespaces, tables, fks, rels, held>>

\* The read-only queries a Schema answers.
Queries(schema) ==
  {[kind |-> "listNamespaces"]}
    \cup {[kind |-> "listTables", ns |-> n] : n \in schema.namespaces}
    \cup {[kind |-> k, table |-> TableKey(t)] :
            k \in {"getTable", "listColumns", "listKeys", "listConstraints", "listIndexes"},
            t \in schema.tables}

Answer(schema, q) ==
  CASE q.kind = "listNamespaces" -> schema.namespaces
    [] q.kind = "listTables" -> {TableKey(t) : t \in {x \in schema.tables : x.ns = q.ns}}
    [] q.kind = "getTable" -> TableAt(schema.tables, q.table)
    [] q.kind = "listColumns" -> TableAt(schema.tables, q.table).columns
    [] q.kind = "listKeys" ->
         [primaryKey |-> TableAt(schema.tables, q.table).primaryKey,
          foreignKeys |-> {fk \in schema.fks : fk.source = q.table}]
    [] q.kind = "listConstraints" ->
         [uniques |-> TableAt(schema.tables, q.table).uniques,
          checks |-> TableAt(schema.tables, q.table).checks]
    [] q.kind = "listIndexes" -> TableAt(schema.tables, q.table).indexes

traverse(q) ==
  /\ held # NoSchema
  /\ q \in Queries(held)
  /\ last' = [op |-> q.kind, input |-> q, errors |-> {}, result |-> Answer(held, q)]
  /\ UNCHANGED <<namespaces, tables, fks, rels, held>>

\* The declarative specification re-derived from a Schema: each table with
\* the foreign keys it is the source of, their column lists read back from
\* the pairs, and the relationships.
Derive(schema) ==
  [tables |->
     {[ns |-> t.ns, name |-> t.name, columns |-> t.columns, primaryKey |-> t.primaryKey,
       uniques |-> t.uniques, indexes |-> t.indexes, checks |-> t.checks,
       foreignKeys |->
         {[source |-> fk.source,
           sourceColumns |-> [i \in DOMAIN fk.pairs |-> fk.pairs[i][1]],
           target |-> fk.target,
           targetColumns |-> [i \in DOMAIN fk.pairs |-> fk.pairs[i][2]],
           onDelete |-> fk.onDelete, onUpdate |-> fk.onUpdate] :
            fk \in {x \in schema.fks : x.source = TableKey(t)}}] : t \in schema.tables},
   relations |-> BagToSet(schema.rels)]

(***************************************************************************)
(* Inputs of the free caller: three fixture tables and variations of them  *)
(***************************************************************************)
\* How many tables, foreign keys and relationships the free caller registers.
MaxDefinitions == 4

FreeNamespaces == {pgAdvanced_authSchema, pgAdvanced_publicSchema}

AuthUsersTable == TableOf(pgAdvanced_authUsers)

ProjectsTable == TableOf(pgAdvanced_publicProjects)

SensorDataTable == TableOf(pgComposite_sensorData)

\* A table named users in the other namespace, keyed by email instead of id.
PublicUsersTable ==
  [AuthUsersTable EXCEPT !.ns = pgAdvanced_publicSchema, !.primaryKey = <<"email">>]

\* A declaration with one more reference to column c in the given construct.
WithReference(t, construct, c) ==
  CASE construct = "primaryKey" -> [t EXCEPT !.primaryKey = <<c>>]
    [] construct = "unique" ->
         [t EXCEPT !.uniques = @ \cup {[name |-> "extra_unique", columns |-> <<c>>]}]
    [] construct = "index" ->
         [t EXCEPT !.indexes = @ \cup {[name |-> "extra_idx", columns |-> <<c>>,
                                        unique |-> FALSE, where |-> {}]}]
    [] construct = "check" ->
         [t EXCEPT !.checks = @ \cup {[name |-> "extra_check", columns |-> {c}]}]

\* A declaration with one more (nullable) column named c.
WithColumn(t, c) ==
  [t EXCEPT !.columns = Append(@, [name |-> c, notNull |-> FALSE])]

Constructs == {"unique", "index", "check"}

\* device_id is a column of sensor_data and manager_id a nullable column of
\* projects; no_such_column is in no fixture table.  One declaration keys
\* projects by (id, manager_id).
TableInputs ==
  {AuthUsersTable, ProjectsTable, SensorDataTable, PublicUsersTable,
   [ProjectsTable EXCEPT !.primaryKey = <<"id", "manager_id">>]}
    \cup {WithReference(ProjectsTable, "primaryKey", c) : c \in {"manager_id", "no_such_column"}}
    \cup {WithReference(SensorDataTable, k, c) :
            k \in Constructs, c \in {"device_id", "no_such_column"}}
    \cup {WithColumn(SensorDataTable, c) : c \in {"device_id", "no_such_column"}}

\* Foreign keys from projects (owner_id is NOT NULL, manager_id is nullable) to
\* auth.users (key id, unique email), to public.users (key email) and to
\* sensor_data (key device_id, timestamp).
SourceColumnLists ==
  {<<"owner_id">>, <<"manager_id">>, <<"manager_id", "owner_id">>}

TargetColumnLists(k) ==
  CASE k = TableKey(AuthUsersTable) -> {<<"id">>, <<"email">>, <<"password_hash">>}
    [] k = TableKey(PublicUsersTable) -> {<<"id">>}
    [] OTHER -> {<<"device_id">>, <<"device_id", "timestamp">>, <<"timestamp", "device_id">>}

ActionInputs == {<<"restrict", "cascade">>, <<"set null", "cascade">>, <<"cascade", "set null">>}

\* The last two are a reference of projects to itself and a reference of
\* auth.users back to projects, which references auth.users.
ForeignKeyInputs ==
  {[source |-> TableKey(ProjectsTable), sourceColumns |-> s, target |-> k, targetColumns |-> c,
    onDelete |-> a[1], onUpdate |-> a[2]] :
     s \in SourceColumnLists, a \in ActionInputs,
     <<k, c>> \in UNION {{<<k, c>> : c \in TargetColumnLists(k)} :
                           k \in {TableKey(AuthUsersTable), TableKey(PublicUsersTable),
                                  TableKey(SensorDataTable)}}}
    \cup {[source |-> TableKey(ProjectsTable), sourceColumns |-> <<"manager_id">>,
            target |-> TableKey(ProjectsTable), targetColumns |-> <<"id">>,
            onDelete |-> "restrict", onUpdate |-> "cascade"],
           [source |-> TableKey(AuthUsersTable), sourceColumns |-> <<"id">>,
            target |-> TableKey(ProjectsTable), targetColumns |-> <<"id">>,
            onDelete |-> "restrict", onUpdate |-> "cascade"]}

RelationNames == {NoRelationName, "ProjectOwner", "ProjectManager"}

RelationshipInputs ==
  {[from |-> r[1], to |-> r[2], cardinality |-> r[3], relationName |-> n] :
     r \in {<<TableKey(ProjectsTable), TableKey(AuthUsersTable), "many-to-one">>,
            <<TableKey(AuthUsersTable), TableKey(ProjectsTable), "one-to-many">>,
            <<TableKey(AuthUsersTable), TableKey(AuthUsersTable), "many-to-one">>,
            <<TableKey(AuthUsersTable), TableKey(AuthUsersTable), "one-to-many">>},
     n \in RelationNames}

\* How many calls the free caller makes after it was given a Schema.
MaxLater == 2

\* The calls made after a Schema was returned (spec.md section 5,
\* incremental evolution): one definition of each kind, and finalize.
LaterCalls ==
  { [op |-> "defineTable", input |-> SensorDataTable],
    [op |-> "defineForeignKey",
     input |-> [source |-> TableKey(ProjectsTable), sourceColumns |-> <<"owner_id">>,
                target |-> TableKey(AuthUsersTable), targetColumns |-> <<"id">>,
                onDelete |-> "restrict", onUpdate |-> "cascade"]],
    [op |-> "defineRelationship",
     input |-> [from |-> TableKey(ProjectsTable), to |-> TableKey(AuthUsersTable),
                cardinality |-> "many-to-one", relationName |-> "ProjectOwner"]],
    [op |-> "finalize", input |-> NoInput] }

Definitions == Cardinality(tables) + Cardinality(fks) + BagCardinality(rels)

(***************************************************************************)
(* Behaviour                                                               *)
(***************************************************************************)
Init ==
  /\ namespaces = {DefaultNamespace}
  /\ tables = {}
  /\ fks = {}
  /\ rels = EmptyBag
  /\ held = NoSchema
  /\ last = NoCall
  /\ fixture \in {NoFixture} \cup Fixtures
  /\ pc = 1

\* The free caller builds once: it defines until finalize gives it a Schema.
Free ==
  /\ fixture = NoFixture
  /\ last = NoCall
  /\ held = NoSchema
  /\ UNCHANGED <<fixture, pc>>

DefineNamespace == Free /\ \E n \in FreeNamespaces : defineNamespace(n)

DefineTable == Free /\ Definitions < MaxDefinitions /\ \E t \in TableInputs : defineTable(t)

DefineForeignKey ==
  Free /\ Definitions < MaxDefinitions /\ \E fk \in ForeignKeyInputs : defineForeignKey(fk)

DefineRelationship ==
  Free /\ Definitions < MaxDefinitions /\ \E r \in RelationshipInputs : defineRelationship(r)

Finalize == Free /\ finalize

\* A call of the free caller after it was given a Schema.
Evolve ==
  /\ fixture = NoFixture
  /\ last = NoCall
  /\ held # NoSchema
  /\ pc <= MaxLater
  /\ \E c \in LaterCalls :
       CASE c.op = "defineTable" -> defineTable(c.input)
         [] c.op = "defineForeignKey" -> defineForeignKey(c.input)
         [] c.op = "defineRelationship" -> defineRelationship(c.input)
         [] c.op = "finalize" -> finalize
  /\ pc' = pc + 1
  /\ UNCHANGED fixture

\* One call of the fixture's script.
LoadFixture ==
  /\ fixture # NoFixture
  /\ last = NoCall
  /\ pc <= Len(Script(fixture))
  /\ LET c == Script(fixture)[pc] IN
       CASE c.op = "defineNamespace" -> defineNamespace(c.input.ns)
         [] c.op = "defineTable" -> defineTable(c.input)
         [] c.op = "defineForeignKey" -> defineForeignKey(c.input)
         [] c.op = "defineRelationship" -> defineRelationship(c.input)
         [] c.op = "finalize" -> finalize
  /\ pc' = pc + 1
  /\ UNCHANGED fixture

ListRelationships ==
  /\ last = NoCall
  /\ held # NoSchema
  /\ \E t \in held.tables, n \in RelationNames : listRelationships(TableKey(t), n)
  /\ UNCHANGED <<fixture, pc>>

Traverse ==
  /\ last = NoCall
  /\ held # NoSchema
  /\ \E q \in Queries(held) : traverse(q)
  /\ UNCHANGED <<fixture, pc>>

\* The caller takes the result of the call and goes on.
Return ==
  /\ last # NoCall
  /\ last' = NoCall
  /\ UNCHANGED <<namespaces, tables, fks, rels, held, fixture, pc>>

Next ==
  \/ DefineNamespace
  \/ DefineTable
  \/ DefineForeignKey
  \/ DefineRelationship
  \/ Finalize
  \/ Evolve
  \/ LoadFixture
  \/ ListRelationships
  \/ Traverse
  \/ Return

Spec == Init /\ [][Next]_vars


(***************************************************************************)
(* Properties.  Each is stated on the call that has just returned (last),  *)
(* on the registry and on the Schema held, from the fields of the inputs   *)
(* alone, not from the checks of the builder above.                        *)
(***************************************************************************)
Reported(kind, subject) ==
  \E v \in last.result : v.kind = kind /\ v.subject = subject

ReportedKind(kind) == \E v \in last.result : v.kind = kind

\* The registry as a Schema would hold it.
Registry == [namespaces |-> namespaces, tables |-> tables, fks |-> fks, rels |-> rels]

\* The index in the fixture's script of the call that has just returned.
CallIndex == pc - 1

Largest(S) == CHOOSE i \in S : \A j \in S : j <= i

\* The target columns are, as a set, the primary key or one unique constraint
\* of the target table among ts.
TargetMatchesKey(ts, fk) ==
  \E t \in ts :
    /\ TableKey(t) = fk.target
    /\ \/ t.primaryKey # <<>> /\ Range(t.primaryKey) = Range(fk.targetColumns)
       \/ \E u \in t.uniques : Range(u.columns) = Range(fk.targetColumns)

\* C1: a foreign key whose target columns are not, as a set, the primary key
\* or a unique constraint of its target table is refused with
\* ForeignKeyTargetNotUnique, by defineForeignKey when the target table is
\* registered and by finalize in any case, so no Schema holds one; a foreign
\* key whose target columns are such a key is not refused for this reason, as
\* the foreign keys of auth.sessions and of every other fixture table are not.
ForeignKeyTargetsAreKeys ==
  /\ (last.op = "defineForeignKey" /\ \E t \in tables : TableKey(t) = last.input.target)
       => ("ForeignKeyTargetNotUnique" \in last.errors <=> ~TargetMatchesKey(tables, last.input))
  /\ last.op = "finalize"
       => /\ \A fk \in fks :
               Reported("ForeignKeyTargetNotUnique", fk) <=> ~TargetMatchesKey(tables, fk)
          /\ (\E fk \in fks : ~TargetMatchesKey(tables, fk))
               => "SchemaValidationError" \in last.errors
  /\ held # NoSchema => \A fk \in held.fks : TargetMatchesKey(held.tables, fk)
  /\ (fixture # NoFixture /\ last.op = "defineForeignKey")
       => "ForeignKeyTargetNotUnique" \notin last.errors

\* C1 witness: a foreign key to a registered table is refused for its target
\* columns alone.
ForeignKeyToNonKeyRefused ==
  /\ last.op = "defineForeignKey"
  /\ \E t \in tables : TableKey(t) = last.input.target
  /\ last.errors = {"ForeignKeyTargetNotUnique"}

\* A source column of fk is declared NOT NULL or is in the source table's key.
SomeSourceColumnNonNullable(fk) ==
  LET t == TableAt(tables, fk.source) IN
  \E i \in DOMAIN fk.sourceColumns :
    \/ \E j \in DOMAIN t.columns :
         t.columns[j].name = fk.sourceColumns[i] /\ t.columns[j].notNull
    \/ \E j \in DOMAIN t.primaryKey : t.primaryKey[j] = fk.sourceColumns[i]

SetsNull(fk) == fk.onDelete = "set null" \/ fk.onUpdate = "set null"

\* C2: defineForeignKey with set null as its on-delete or on-update action
\* fails with ForeignKeySetNullOnNonNullable exactly when a source column is
\* declared NOT NULL or is a member of the source table's primary key; with
\* every source column nullable it passes this rule, as the set-null foreign
\* keys of the fixtures (analytics.page_views, user_roles.assigned_by) do.
SetNullNeedsNullableSource ==
  /\ last.op = "defineForeignKey"
       => ("ForeignKeySetNullOnNonNullable" \in last.errors
             <=> SetsNull(last.input) /\ SomeSourceColumnNonNullable(last.input))
  /\ \A fk \in fks : SetsNull(fk) => ~SomeSourceColumnNonNullable(fk)
  /\ (fixture # NoFixture /\ last.op = "defineForeignKey" /\ SetsNull(last.input))
       => last.errors = {}

\* C2 witness: set null is refused on a column that is nullable by its own
\* declaration but a member of the primary key.
SetNullOnKeyColumnRefused ==
  /\ last.op = "defineForeignKey"
  /\ last.errors = {"ForeignKeySetNullOnNonNullable"}
  /\ last.input.sourceColumns = <<"manager_id">>
  /\ TableAt(tables, last.input.source).primaryKey = <<"manager_id">>
  /\ \E j \in DOMAIN TableAt(tables, last.input.source).columns :
       TableAt(tables, last.input.source).columns[j]
         = [name |-> "manager_id", notNull |-> FALSE]

\* C3: defineForeignKey fails with ForeignKeyLengthMismatch exactly when
\* the two column lists differ in length; a registered foreign key pairs its
\* i-th source column with its i-th target column, as project_tasks pairs
\* (project_id, user_id) with (project_id, user_id) of project_users.
ForeignKeyColumnsPairInOrder ==
  /\ last.op = "defineForeignKey"
       => /\ "ForeignKeyLengthMismatch" \in last.errors
               <=> Len(last.input.sourceColumns) # Len(last.input.targetColumns)
          /\ last.errors = {}
               => \E fk \in fks :
                    /\ fk.source = last.input.source
                    /\ fk.target = last.input.target
                    /\ fk.sourceColumns = last.input.sourceColumns
                    /\ fk.targetColumns = last.input.targetColumns
  /\ \A fk \in fks :
       /\ Len(fk.sourceColumns) = Len(fk.targetColumns)
       /\ DOMAIN fk.pairs = DOMAIN fk.sourceColumns
       /\ \A i \in DOMAIN fk.pairs : fk.pairs[i] = <<fk.sourceColumns[i], fk.targetColumns[i]>>
  /\ (fixture = "mysqlProject" /\ last.op = "defineForeignKey")
       => /\ last.errors = {}
          /\ \E fk \in fks :
               /\ fk.source = <<DefaultNamespace, "project_tasks">>
               /\ fk.pairs = << <<"project_id", "project_id">>, <<"user_id", "user_id">> >>

\* C3 witness: a two-column foreign key is registered with its columns paired
\* in list order, against the order of the target's key, and a call with
\* lists of different lengths has just been refused.
PairedInOrderAndMismatchRefused ==
  /\ last.op = "defineForeignKey"
  /\ "ForeignKeyLengthMismatch" \in last.errors
  /\ \E fk \in fks :
       fk.pairs = << <<"manager_id", "timestamp">>, <<"owner_id", "device_id">> >>

\* The foreign key targets device_id alone of a table among ts whose only
\* unique key is the primary key (device_id, timestamp).
TargetsDeviceIdOnly(ts, fk) ==
  /\ Range(fk.targetColumns) = {"device_id"}
  /\ \E t \in ts :
       /\ TableKey(t) = fk.target
       /\ Range(t.primaryKey) = {"device_id", "timestamp"}
       /\ t.uniques = {}

\* C4: sensor_data has the composite primary key (device_id, timestamp) and
\* no other unique key, and a foreign key that targets device_id alone of
\* such a table is refused: with ForeignKeyTargetNotUnique when it has one
\* source column, with ForeignKeyLengthMismatch when the lists differ in
\* length; finalize refuses one registered before its target, and no Schema
\* holds one.
CompositeKeyRefusesPartialTarget ==
  /\ \A d \in {pgComposite_sensorData, mysqlComposite_sensorData} :
       Range(d.primaryKey) = {"device_id", "timestamp"} /\ d.uniques = {}
  /\ (last.op = "defineForeignKey" /\ TargetsDeviceIdOnly(tables, last.input))
       => /\ last.errors # {}
          /\ Len(last.input.sourceColumns) = 1
               => "ForeignKeyTargetNotUnique" \in last.errors
          /\ Len(last.input.sourceColumns) # Len(last.input.targetColumns)
               => "ForeignKeyLengthMismatch" \in last.errors
  /\ last.op = "finalize"
       => \A fk \in fks :
            TargetsDeviceIdOnly(tables, fk)
              => /\ Reported("ForeignKeyTargetNotUnique", fk)
                 /\ "SchemaValidationError" \in last.errors
  /\ held # NoSchema => \A fk \in held.fks : ~TargetsDeviceIdOnly(held.tables, fk)

\* C4 witness: a one-column foreign key to device_id of the registered
\* sensor_data table is refused as not targeting a key.
DeviceIdAloneRefused ==
  /\ last.op = "defineForeignKey"
  /\ TargetsDeviceIdOnly(tables, last.input)
  /\ last.input.target = TableKey(pgComposite_sensorData)
  /\ Len(last.input.sourceColumns) = 1
  /\ last.errors = {"ForeignKeyTargetNotUnique"}

SameUntaggedPair(x, y) ==
  /\ x.relationName = NoRelationName
  /\ y.relationName = NoRelationName
  /\ x.from = y.from
  /\ x.to = y.to

\* The calls of a fixture's script that declare an untagged relationship
\* from table a to table b.
UntaggedCalls(f, a, b) ==
  LET s == Script(f) IN
  {i \in DOMAIN s :
     /\ s[i].op = "defineRelationship"
     /\ s[i].input.from = a
     /\ s[i].input.to = b
     /\ s[i].input.relationName = NoRelationName}

\* userRoles.user / assignedByUser and userProjectPermissions.user /
\* grantedByUser: two untagged relationships to users each.
TwiceUntagged ==
  { <<f, <<DefaultNamespace, "user_roles">>, <<DefaultNamespace, "users">> >> :
      f \in {"mysqlComposite", "pgComposite"} }
    \cup { <<f, <<DefaultNamespace, "user_project_permissions">>, <<DefaultNamespace, "users">> >> :
      f \in {"mysqlComposite", "pgComposite"} }

\* C5: at most one untagged relationship is registered from a table to a
\* table; defineRelationship reports AmbiguousRelationship for a second one
\* and registers what it accepts.  The composite-key fixtures declare two
\* untagged relationships from user_roles to users and two from
\* user_project_permissions to users: the first of each is accepted and the
\* second is refused.
UntaggedRelationshipsAreUnambiguous ==
  /\ \A x \in DOMAIN rels :
       x.relationName = NoRelationName
         => rels[x] = 1 /\ \A y \in DOMAIN rels : SameUntaggedPair(x, y) => y = x
  /\ last.op = "defineRelationship"
       => /\ last.errors = {} => last.input \in DOMAIN rels
          /\ "AmbiguousRelationship" \in last.errors
               => \E x \in DOMAIN rels : SameUntaggedPair(x, last.input)
  /\ \A d \in TwiceUntagged :
       (fixture = d[1] /\ last.op = "defineRelationship")
         => LET calls == UntaggedCalls(d[1], d[2], d[3]) IN
            /\ Cardinality(calls) = 2
            /\ CallIndex \in calls
                 => ("AmbiguousRelationship" \in last.errors <=> CallIndex = Largest(calls))

\* C5 witness: loading the MySQL composite-keys fixture, the second untagged
\* relationship from user_roles to users has just been refused.
AssignedByUserRefused ==
  /\ fixture = "mysqlComposite"
  /\ last.op = "defineRelationship"
  /\ last.input.from = <<DefaultNamespace, "user_roles">>
  /\ last.input.to = <<DefaultNamespace, "users">>
  /\ last.input.relationName = NoRelationName
  /\ last.errors = {"AmbiguousRelationship"}

ProjectsToUsers(tag) ==
  [from |-> <<"public", "projects">>, to |-> <<"auth", "users">>,
   cardinality |-> "many-to-one", relationName |-> tag]

UsersToProjects(tag) ==
  [from |-> <<"auth", "users">>, to |-> <<"public", "projects">>,
   cardinality |-> "one-to-many", relationName |-> tag]

\* C6: the advanced fixtures, which relate projects and auth.users under the
\* tags ProjectOwner and ProjectManager, each with its tagged inverse,
\* finalize without error; listing the relationships of a table by a tag
\* gives the relationships of the Schema that leave the table under that tag
\* and no other: for projects and for auth.users the one relationship of the
\* tag asked for.
TagsSeparateRelationships ==
  /\ last.op = "listRelationships"
       => /\ DOMAIN last.result \subseteq DOMAIN held.rels
          /\ \A r \in DOMAIN held.rels :
               /\ r \in DOMAIN last.result
                    <=> r.from = last.input.table /\ r.relationName = last.input.relationName
               /\ r \in DOMAIN last.result => last.result[r] = held.rels[r]
  /\ fixture \in {"pgAdvanced", "mysqlAdvanced"}
       => /\ last.op = "finalize" => last.errors = {} /\ held # NoSchema /\ held.rels = rels
          /\ \A tag \in {"ProjectOwner", "ProjectManager"} :
               /\ (last.op = "listRelationships"
                     /\ last.input = [table |-> <<"public", "projects">>, relationName |-> tag])
                    => DOMAIN last.result = {ProjectsToUsers(tag)}
               /\ (last.op = "listRelationships"
                     /\ last.input = [table |-> <<"auth", "users">>, relationName |-> tag])
                    => DOMAIN last.result = {UsersToProjects(tag)}

\* C6 witness: in the Schema of the PostgreSQL advanced fixture the
\* relationships of projects tagged ProjectOwner have just been listed.
ProjectOwnerListed ==
  /\ fixture = "pgAdvanced"
  /\ held # NoSchema
  /\ last.op = "listRelationships"
  /\ last.input = [table |-> <<"public", "projects">>, relationName |-> "ProjectOwner"]
  /\ DOMAIN last.result = {ProjectsToUsers("ProjectOwner")}

\* The declarations of rs that run the other way than r under r's tag.
Inverses(rs, r) ==
  {x \in DOMAIN rs : x.from = r.to /\ x.to = r.from /\ x.relationName = r.relationName}

\* Declaration r has one counterpart and no more.  A self-referential
\* declaration is among its own inverses and is not its own counterpart.
ExactlyOneCounterpart(rs, r) ==
  LET others == Inverses(rs, r) \ {r} IN
  IF r \in Inverses(rs, r)
  THEN \/ rs[r] = 2 /\ others = {}
       \/ rs[r] = 1 /\ \E x \in others : others = {x} /\ rs[x] = 1
  ELSE \E x \in others : others = {x} /\ rs[x] = 1

MoreThanOneCounterpart(rs, r) ==
  LET others == Inverses(rs, r) \ {r} IN
  \/ \E x, y \in others : x # y
  \/ \E x \in others : rs[x] > 1
  \/ r \in Inverses(rs, r) /\ rs[r] + Cardinality(others) > 2

\* C7: in a Schema every tagged relationship from A to B has exactly one
\* counterpart from B to A under the same tag; finalize reports
\* UnpairedRelationName for each tagged relationship with no counterpart or
\* with more than one, and then does not give the registry as a Schema.  The hierarchy tags of the
\* advanced fixtures are paired.
TagsArePaired ==
  /\ held # NoSchema
       => \A r \in DOMAIN held.rels :
            r.relationName # NoRelationName => ExactlyOneCounterpart(held.rels, r)
  /\ last.op = "finalize"
       => /\ \A r \in DOMAIN rels :
               Reported("UnpairedRelationName", r)
                 <=> r.relationName # NoRelationName /\ ~ExactlyOneCounterpart(rels, r)
          /\ ReportedKind("UnpairedRelationName")
               => "SchemaValidationError" \in last.errors /\ held # Registry
  /\ (fixture \in {"pgAdvanced", "mysqlAdvanced"} /\ last.op = "finalize")
       => /\ ~ReportedKind("UnpairedRelationName")
          /\ \E r \in DOMAIN rels : r.relationName = "DepartmentHierarchy"
          /\ \E r \in DOMAIN rels : r.relationName = "EmployeeHierarchy"

\* C7 witness: finalize has just refused a tagged relationship that has more
\* than one counterpart.
TagWithTwoCounterpartsRefused ==
  /\ last.op = "finalize"
  /\ "SchemaValidationError" \in last.errors
  /\ \E r \in DOMAIN rels :
       /\ r.relationName # NoRelationName
       /\ MoreThanOneCounterpart(rels, r)
       /\ Reported("UnpairedRelationName", r)

SelfReferential(r) == r.from = r.to

\* C8: each direction of a self-reference is a relationship from the table
\* to itself, and a Schema holds such a relationship only with a tag;
\* finalize reports SelfReferenceRequiresRelationName for every untagged
\* one and then does not give the registry as a Schema.  The self-references of the advanced
\* fixtures (departments, employees) are tagged in both directions.
SelfReferencesAreTagged ==
  /\ held # NoSchema
       => \A r \in DOMAIN held.rels : SelfReferential(r) => r.relationName # NoRelationName
  /\ last.op = "finalize"
       => /\ \A r \in DOMAIN rels :
               Reported("SelfReferenceRequiresRelationName", r)
                 <=> SelfReferential(r) /\ r.relationName = NoRelationName
          /\ ReportedKind("SelfReferenceRequiresRelationName")
               => "SchemaValidationError" \in last.errors /\ held # Registry
  /\ (fixture \in {"pgAdvanced", "mysqlAdvanced"} /\ last.op = "finalize")
       => /\ ~ReportedKind("SelfReferenceRequiresRelationName")
          /\ \A c \in {"many-to-one", "one-to-many"} :
               \E r \in DOMAIN rels :
                 r.from = <<"public", "employees">> /\ SelfReferential(r) /\ r.cardinality = c

\* C8 witness: finalize has just refused an untagged self-reference whose
\* other direction is tagged.
UntaggedSelfReferenceRefused ==
  /\ last.op = "finalize"
  /\ "SchemaValidationError" \in last.errors
  /\ \E r, x \in DOMAIN rels :
       /\ SelfReferential(r)
       /\ r.relationName = NoRelationName
       /\ Reported("SelfReferenceRequiresRelationName", r)
       /\ SelfReferential(x)
       /\ x.from = r.from
       /\ x.relationName # NoRelationName

\* The constructs of declaration t that name a column t does not have.
ConstructsNamingMissingColumn(t) ==
  LET cols == {t.columns[i].name : i \in DOMAIN t.columns} IN
  (IF \E i \in DOMAIN t.primaryKey : t.primaryKey[i] \notin cols THEN {"primaryKey"} ELSE {})
    \cup (IF \E u \in t.uniques : \E i \in DOMAIN u.columns : u.columns[i] \notin cols
          THEN {"unique"} ELSE {})
    \cup (IF \E c \in t.checks : \E n \in c.columns : n \notin cols THEN {"check"} ELSE {})
    \cup (IF \E x \in t.indexes :
               \/ \E i \in DOMAIN x.columns : x.columns[i] \notin cols
               \/ \E n \in x.where : n \notin cols
          THEN {"index"} ELSE {})

\* C9: defineTable fails with UnknownColumnReference exactly when the
\* primary key, a unique constraint, a check constraint or an index names a
\* column that is not among the declaration's columns, whichever of them it
\* is; every reference of a registered table is to one of its columns.  The
\* references of public.bookings and of every fixture table resolve.
ColumnReferencesResolve ==
  /\ last.op = "defineTable"
       => /\ "UnknownColumnReference" \in last.errors
               <=> ConstructsNamingMissingColumn(last.input) # {}
          /\ last.errors = {} => last.input \in tables
  /\ \A t \in tables : ConstructsNamingMissingColumn(t) = {}
  /\ (fixture # NoFixture /\ last.op = "defineTable")
       => "UnknownColumnReference" \notin last.errors

\* C9 witness: a declaration whose only fault is a check constraint on a
\* column it does not have has just been refused.
UnknownCheckColumnRefused ==
  /\ last.op = "defineTable"
  /\ last.errors = {"UnknownColumnReference"}
  /\ ConstructsNamingMissingColumn(last.input) = {"check"}
  /\ last.input \notin tables

\* The tables the PostgreSQL composite-keys fixture declares twice.
TwiceDeclared ==
  {"user_roles", "order_items", "translations", "sensor_data",
   "user_project_permissions", "users", "roles"}

\* The calls of a fixture's script that declare a table of the given key.
TableCalls(f, k) ==
  LET s == Script(f) IN
  {i \in DOMAIN s : s[i].op = "defineTable" /\ TableKey(s[i].input) = k}

\* C10: a defineTable call fails with DuplicateTableName exactly when a
\* table of the same namespace and name is registered already, and then
\* registers nothing, so no two registered tables share namespace and name.
\* The PostgreSQL composite-keys fixture declares each of seven tables twice
\* in the default namespace: the first declaration of each is registered and
\* the second is refused.
TableNamesAreUnique ==
  [][(last.op = "none" /\ last'.op = "defineTable")
       => /\ "DuplicateTableName" \in last'.errors
               <=> \E t \in tables : TableKey(t) = TableKey(last'.input)
          /\ "DuplicateTableName" \in last'.errors => tables' = tables
          /\ \A a, b \in tables' : TableKey(a) = TableKey(b) => a = b
          /\ fixture = "pgComposite"
               => LET calls == TableCalls("pgComposite", TableKey(last'.input)) IN
                  /\ pc \in calls
                  /\ last'.input.name \in TwiceDeclared => Cardinality(calls) = 2
                  /\ "DuplicateTableName" \in last'.errors
                       <=> last'.input.name \in TwiceDeclared /\ pc = Largest(calls)]_vars

\* C10 witness: loading the PostgreSQL composite-keys fixture, the second
\* declaration of roles, the last of the seven, has just been refused.
SecondRolesDeclarationRefused ==
  /\ fixture = "pgComposite"
  /\ last.op = "defineTable"
  /\ last.input.name = "roles"
  /\ last.errors = {"DuplicateTableName"}
  /\ \A n \in TwiceDeclared : \E t \in tables : TableKey(t) = <<DefaultNamespace, n>>

\* The table among ts in namespace k[1] with name k[2], and no other.
Named(ts, k) == {t \in ts : t.ns = k[1] /\ t.name = k[2]}

\* The columns are, as a set, the primary key or a unique constraint of t.
IsKeyOf(t, columns) ==
  \/ t.primaryKey # <<>> /\ Range(t.primaryKey) = Range(columns)
  \/ \E u \in t.uniques : Range(u.columns) = Range(columns)

\* C11: a table is identified by its namespace together with its name.
\* defineTable reports DuplicateTableName only against a registered table of
\* the same namespace and the same name, so users can be defined in auth and
\* in public; a foreign key or relationship between tables of different
\* namespaces is accepted, as public.events.organizer_id to auth.users.id is;
\* and a foreign key or a listing is resolved against the table of the
\* namespace it names, whatever a table of that name elsewhere declares.
TablesAreNamedWithinNamespaces ==
  /\ \A t1, t2 \in tables : (t1.ns = t2.ns /\ t1.name = t2.name) => t1 = t2
  /\ last.op = "defineTable"
       => IF last.errors = {}
          THEN last.input \in tables
          ELSE "DuplicateTableName" \in last.errors
                 <=> Named(tables, <<last.input.ns, last.input.name>>) # {}
  /\ last.op = "defineForeignKey"
       => ("ForeignKeyTargetNotUnique" \in last.errors
             <=> \E t \in Named(tables, last.input.target) :
                   ~IsKeyOf(t, last.input.targetColumns))
  /\ last.op = "defineRelationship"
       => (last.errors # {}
             => \E x \in BagToSet(rels) : x.from = last.input.from /\ x.to = last.input.to)
  /\ last.op = "finalize"
       => \A fk \in fks :
            Reported("ForeignKeyTargetNotUnique", fk)
              <=> \A t \in Named(tables, fk.target) : ~IsKeyOf(t, fk.targetColumns)
  /\ last.op = "listRelationships"
       => \A r \in BagToSet(held.rels) :
            r \in DOMAIN last.result
              <=> (r.from[1] = last.input.table[1] /\ r.from[2] = last.input.table[2]
                     /\ r.relationName = last.input.relationName)
  /\ (fixture \in {"pgAdvanced", "mysqlAdvanced"} /\ last.op = "finalize")
       => /\ last.errors = {}
          /\ held # NoSchema
          /\ \E fk \in held.fks :
               /\ fk.source = <<"public", "events">> /\ fk.sourceColumns = <<"organizer_id">>
               /\ fk.target = <<"auth", "users">> /\ fk.targetColumns = <<"id">>
          /\ \E fk \in held.fks :
               fk.source = <<"admin", "audit_logs">> /\ fk.target = <<"auth", "users">>

\* C11 witness: with users defined in auth and in public, a foreign key to
\* public.users.id is refused because id is no key of public.users, although
\* it is the key of auth.users.
ForeignKeyResolvedInNamedNamespace ==
  /\ last.op = "defineForeignKey"
  /\ last.input.target = <<"public", "users">>
  /\ last.input.targetColumns = <<"id">>
  /\ last.errors = {"ForeignKeyTargetNotUnique"}
  /\ \E t \in tables : t.ns = "auth" /\ t.name = "users" /\ t.primaryKey = <<"id">>
  /\ \E t \in tables : t.ns = "public" /\ t.name = "users" /\ t.primaryKey = <<"email">>

\* The column sets of t that two of its uniqueness declarations cover: the
\* primary key, the unique constraints and the unique indexes.
CoveredTwice(t) ==
  LET sets == (IF t.primaryKey = <<>> THEN {} ELSE {Range(t.primaryKey)})
                \cup {Range(u.columns) : u \in t.uniques}
                \cup {Range(x.columns) : x \in {y \in t.indexes : y.unique}}
      count(S) == (IF t.primaryKey # <<>> /\ Range(t.primaryKey) = S THEN 1 ELSE 0)
                    + Cardinality({u \in t.uniques : Range(u.columns) = S})
                    + Cardinality({x \in t.indexes : x.unique /\ Range(x.columns) = S})
  IN  {S \in sets : count(S) >= 2}

\* The foreign keys among fs with no key of a table among ts as their target.
WithoutKeyTarget(ts, fs) ==
  {fk \in fs : \A t \in Named(ts, fk.target) : ~IsKeyOf(t, fk.targetColumns)}

\* The tagged relationships of rs without exactly one counterpart.
Unpaired(rs) ==
  {r \in DOMAIN rs : r.relationName # NoRelationName /\ ~ExactlyOneCounterpart(rs, r)}

\* The untagged relationships of rs from a table to itself.
UntaggedSelfReferences(rs) ==
  {r \in DOMAIN rs : SelfReferential(r) /\ r.relationName = NoRelationName}

\* The (table, column set) pairs among ts covered twice.
Redundancies(ts) ==
  UNION {{<<<<t.ns, t.name>>, S>> : S \in CoveredTwice(t)} : t \in ts}

\* C12: the report of finalize has one entry for every violation of what is
\* registered and no other entry: each foreign key without a key as target,
\* each tagged relationship without exactly one counterpart, each untagged
\* self-reference and each redundant uniqueness, however many there are of a
\* kind or of different kinds; with any of the first three finalize fails
\* with SchemaValidationError carrying that report.  What was registered is
\* still registered afterwards.  Loading the PostgreSQL composite-keys file,
\* whose ambiguous relations were each refused when declared, finalize finds
\* nothing to report.
FinalizeReportsEveryViolation ==
  /\ last.op = "finalize"
       => /\ \A fk \in WithoutKeyTarget(tables, fks) : Reported("ForeignKeyTargetNotUnique", fk)
          /\ \A r \in Unpaired(rels) : Reported("UnpairedRelationName", r)
          /\ \A r \in UntaggedSelfReferences(rels) :
               Reported("SelfReferenceRequiresRelationName", r)
          /\ \A s \in Redundancies(tables) : Reported("RedundantUniqueConstraint", s)
          /\ Cardinality(last.result)
               = Cardinality(WithoutKeyTarget(tables, fks)) + Cardinality(Unpaired(rels))
                   + Cardinality(UntaggedSelfReferences(rels))
                   + Cardinality(Redundancies(tables))
          /\ "SchemaValidationError" \in last.errors
               <=> (WithoutKeyTarget(tables, fks) # {} \/ Unpaired(rels) # {}
                      \/ UntaggedSelfReferences(rels) # {})
  /\ (fixture = "pgComposite" /\ last.op = "finalize")
       => /\ last.result = {}
          /\ last.errors = {}
          /\ held # NoSchema
          /\ \A r \in DOMAIN rels : r.relationName = NoRelationName /\ rels[r] = 1

\* C12 witness: finalize has just failed with a report of three violations or
\* more, two of them of one kind and one of another kind.
SeveralViolationsReported ==
  /\ last.op = "finalize"
  /\ last.errors = {"SchemaValidationError"}
  /\ Cardinality(last.result) >= 3
  /\ Cardinality(Unpaired(rels)) >= 2
  /\ UntaggedSelfReferences(rels) # {}
  /\ \A r \in Unpaired(rels) : Reported("UnpairedRelationName", r)
  /\ \A r \in UntaggedSelfReferences(rels) : Reported("SelfReferenceRequiresRelationName", r)

\* No validation rule that blocks finalize is broken among ts, fs and rs.
NothingBlocking(ts, fs, rs) ==
  /\ WithoutKeyTarget(ts, fs) = {}
  /\ Unpaired(rs) = {}
  /\ UntaggedSelfReferences(rs) = {}
  /\ \A t \in ts : ConstructsNamingMissingColumn(t) = {}

\* C13: finalize is all-or-nothing.  A Schema held breaks no blocking rule:
\* its foreign keys target keys of its tables, its tags are paired, its
\* self-references are tagged and its column references resolve.  finalize
\* without error has returned the registry as the Schema; finalize with an
\* error has returned SchemaValidationError with a report and the registry is
\* not what the caller holds.
FinalizeIsAllOrNothing ==
  /\ held # NoSchema => NothingBlocking(held.tables, held.fks, held.rels)
  /\ last.op = "finalize"
       => /\ last.errors = {} <=> NothingBlocking(tables, fks, rels)
          /\ last.errors = {} => held = Registry
          /\ last.errors # {}
               => /\ last.errors = {"SchemaValidationError"}
                  /\ last.result # {}
                  /\ held # Registry

\* C13 witness: finalize has just refused a registry of three tables whose
\* only broken rule is one unpaired tag, and the caller holds no Schema.
UnpairedTagLeavesNothingHeld ==
  /\ last.op = "finalize"
  /\ last.errors = {"SchemaValidationError"}
  /\ held = NoSchema
  /\ Cardinality(tables) = 3
  /\ Cardinality(Unpaired(rels)) = 1
  /\ WithoutKeyTarget(tables, fks) = {}
  /\ UntaggedSelfReferences(rels) = {}

\* The subjects finalize has reported as redundant.
ReportedRedundant ==
  {v.subject : v \in {x \in last.result : x.kind = "RedundantUniqueConstraint"}}

\* The columns of the advanced fixtures declared unique and covered by a
\* unique index of their own as well.
TwiceUniqueInAdvanced ==
  { <<<<"auth", "users">>, {"email"}>>, <<<<"auth", "sessions">>, {"token"}>>,
    <<<<"public", "employees">>, {"user_id"}>>,
    <<<<"public", "employees">>, {"employee_number"}>> }

\* C14: finalize reports RedundantUniqueConstraint for exactly the column
\* sets of a table that two of its uniqueness declarations cover, the primary
\* key counted among them, and the report is a warning: a registry whose
\* report holds nothing but such entries is returned as the Schema, and a
\* failing finalize always has an entry of another kind.  The advanced
\* fixtures are returned as Schemas with this warning for auth.users.email,
\* auth.sessions.token, employees.user_id and employees.employee_number and
\* for nothing else.
RedundantUniquenessOnlyWarns ==
  /\ last.op = "finalize"
       => /\ ReportedRedundant = Redundancies(tables)
          /\ (\A v \in last.result : v.kind = "RedundantUniqueConstraint")
               => last.errors = {} /\ held = Registry
          /\ last.errors # {}
               => \E v \in last.result : v.kind # "RedundantUniqueConstraint"
  /\ (fixture \in {"pgAdvanced", "mysqlAdvanced"} /\ last.op = "finalize")
       => /\ ReportedRedundant = TwiceUniqueInAdvanced
          /\ Cardinality(last.result) = 4
          /\ last.errors = {}
          /\ held = Registry

\* C14 witness: finalize has just returned a Schema with public.users, whose
\* primary key and unique constraint both cover email, and has reported that
\* as redundant.
RedundantKeyReportedAndSchemaReturned ==
  /\ last.op = "finalize"
  /\ last.errors = {}
  /\ held = Registry
  /\ \E t \in held.tables :
       /\ t.ns = "public" /\ t.name = "users"
       /\ t.primaryKey = <<"email">>
       /\ \E u \in t.uniques : u.columns = <<"email">>
  /\ <<<<"public", "users">>, {"email"}>> \in ReportedRedundant

DefineOps == {"defineNamespace", "defineTable", "defineForeignKey", "defineRelationship"}

TraversalOps ==
  {"listNamespaces", "listTables", "getTable", "listColumns", "listKeys", "listConstraints",
   "listIndexes", "listRelationships"}

\* What call c, a traversal, must have returned from Schema s.
Returned(s, c) ==
  LET t == CHOOSE x \in s.tables : x.ns = c.input.table[1] /\ x.name = c.input.table[2] IN
  CASE c.op = "listNamespaces" -> c.result = s.namespaces
    [] c.op = "listTables" ->
         c.result = {<<x.ns, x.name>> : x \in {y \in s.tables : y.ns = c.input.ns}}
    [] c.op = "getTable" -> c.result = t
    [] c.op = "listColumns" -> c.result = t.columns
    [] c.op = "listKeys" ->
         /\ c.result.primaryKey = t.primaryKey
         /\ c.result.foreignKeys = {fk \in s.fks : fk.source = c.input.table}
    [] c.op = "listConstraints" -> c.result.uniques = t.uniques /\ c.result.checks = t.checks
    [] c.op = "listIndexes" -> c.result = t.indexes
    [] c.op = "listRelationships" ->
         DOMAIN c.result
           = {r \in DOMAIN s.rels :
                r.from = c.input.table /\ r.relationName = c.input.relationName}

\* C15: the Schema a caller holds is replaced only by a finalize that
\* succeeds, and then by the registry as it is at that call; no definition,
\* no failing finalize and no traversal changes it.  A traversal returns
\* without error what the Schema held contains, which is therefore the same
\* on every call until finalize succeeds again, and changes nothing.  A
\* table, foreign key or relationship defined after a Schema was returned is
\* in the registry and not in that Schema.
SnapshotIsImmutable ==
  [][/\ held' # held
          => /\ last'.op = "finalize"
             /\ last'.errors = {}
             /\ held' = [namespaces |-> namespaces', tables |-> tables', fks |-> fks',
                         rels |-> rels']
     /\ last'.op \in DefineOps => held' = held
     /\ (last'.op = "finalize" /\ last'.errors # {}) => held' = held
     /\ last'.op \in TraversalOps
          => /\ last'.errors = {}
             /\ held # NoSchema
             /\ Returned(held, last')
             /\ UNCHANGED <<namespaces, tables, fks, rels, held>>]_vars

\* C15 witness: sensor_data was defined after a Schema was returned; it is
\* registered, the Schema held is without it, and listing the tables of the
\* default namespace in that Schema has just returned none.
LaterTableNotInSchemaHeld ==
  /\ fixture = NoFixture
  /\ pc > 1
  /\ held # NoSchema
  /\ \E t \in tables : t.name = "sensor_data"
  /\ ~\E t \in held.tables : t.name = "sensor_data"
  /\ last.op = "listTables"
  /\ last.input.ns = DefaultNamespace
  /\ last.errors = {}
  /\ last.result = {}

\* The declarative specification of a fixture file: its table declarations,
\* each with the set of its foreign keys, and its relation declarations.
Declared(f) ==
  LET D == FixtureFile(f) IN
  [tables |->
     {[ns |-> d.ns, name |-> d.name, columns |-> d.columns, primaryKey |-> d.primaryKey,
       uniques |-> d.uniques, indexes |-> d.indexes, checks |-> d.checks,
       foreignKeys |-> Range(d.foreignKeys)] : d \in Range(D.tables)},
   relations |-> {RelationshipOf(r) : r \in Range(Flatten(D.relations))}]

KeyIsWellFormed(t) ==
  /\ \A i \in DOMAIN t.primaryKey :
       \E j \in DOMAIN t.columns : t.columns[j].name = t.primaryKey[i]
  /\ \A i, j \in DOMAIN t.primaryKey : t.primaryKey[i] = t.primaryKey[j] => i = j

InCompositeKey(t, c) ==
  /\ Len(t.primaryKey) >= 2
  /\ \E i \in DOMAIN t.primaryKey : t.primaryKey[i] = c

\* The declared flag of column c of t says it may be null.
DeclaredNullable(t, c) ==
  \E i \in DOMAIN t.columns : t.columns[i].name = c /\ ~t.columns[i].notNull

\* A source column of fk is in the composite primary key of the source table.
SourceInCompositeKey(ts, fk) ==
  \E t \in Named(ts, fk.source) :
    \E i \in DOMAIN fk.sourceColumns : InCompositeKey(t, fk.sourceColumns[i])

\* C18: a column of a composite primary key is not nullable whatever its
\* own flag says, so defineForeignKey refuses a set-null foreign key with
\* such a column among its source columns, also when the column is declared
\* nullable, and no set-null foreign key with such a column is registered
\* or in a Schema.  user_roles is keyed by (user_id, role_id) and
\* project_users by (project_id, user_id); the set-null foreign key of
\* user_roles is on assigned_by, outside the key, and is accepted.
CompositeKeyMembersAreNotNullable ==
  /\ \A t \in tables : \A i \in DOMAIN t.primaryKey : ~Nullable(t, t.primaryKey[i])
  /\ (last.op = "defineForeignKey" /\ SetsNull(last.input)
        /\ SourceInCompositeKey(tables, last.input))
       => "ForeignKeySetNullOnNonNullable" \in last.errors
  /\ \A fk \in fks : SetsNull(fk) => ~SourceInCompositeKey(tables, fk)
  /\ held # NoSchema
       => \A fk \in held.fks : SetsNull(fk) => ~SourceInCompositeKey(held.tables, fk)
  /\ (fixture \in {"pgComposite", "mysqlComposite"} /\ last.op = "finalize")
       => \E t \in held.tables : t.name = "user_roles" /\ t.primaryKey = <<"user_id", "role_id">>
  /\ (fixture \in {"pgComposite", "mysqlProject"} /\ last.op = "finalize")
       => \E t \in held.tables :
            t.name = "project_users" /\ t.primaryKey = <<"project_id", "user_id">>
  /\ (fixture = "mysqlComposite" /\ last.op = "defineForeignKey"
        /\ last.input.source = <<DefaultNamespace, "user_roles">> /\ SetsNull(last.input))
       => /\ last.input.sourceColumns = <<"assigned_by">>
          /\ ~SourceInCompositeKey(tables, last.input)
          /\ last.errors = {}

\* C18 witness: projects is keyed by (id, manager_id) with manager_id declared
\* nullable, and a set-null foreign key on manager_id alone has just been
\* refused for that reason only.
SetNullOnCompositeKeyMemberRefused ==
  /\ last.op = "defineForeignKey"
  /\ SetsNull(last.input)
  /\ last.input.sourceColumns = <<"manager_id">>
  /\ last.errors = {"ForeignKeySetNullOnNonNullable"}
  /\ \E t \in Named(tables, last.input.source) :
       /\ t.primaryKey = <<"id", "manager_id">>
       /\ InCompositeKey(t, "manager_id")
       /\ DeclaredNullable(t, "manager_id")

\* Two columns of declaration t have one name.
RepeatsColumnName(t) ==
  \E i, j \in DOMAIN t.columns : i # j /\ t.columns[i].name = t.columns[j].name

\* The table of the advanced fixtures named by reserved words: order, with
\* columns user, group and table and an index on user.
IsOrderTable(t) ==
  /\ t.ns = "public"
  /\ t.name = "order"
  /\ {"user", "group", "table"} \subseteq {t.columns[i].name : i \in DOMAIN t.columns}
  /\ \E x \in t.indexes : x.columns = <<"user">>

\* C19: names are data.  defineTable reports nothing but a duplicate table
\* name, a duplicate column name or an unknown column reference, so a
\* declaration with none of these is registered whatever its names are; the
\* table order of the advanced fixtures, with columns user, group and table
\* and an index on user, is registered by defineTable, is in the Schema
\* finalize returns, and no entry of the report is about it.
ReservedWordsAreOrdinaryNames ==
  /\ last.op = "defineTable"
       => /\ last.errors
               \subseteq {"DuplicateTableName", "DuplicateColumnName", "UnknownColumnReference"}
          /\ ("DuplicateTableName" \notin last.errors /\ ~RepeatsColumnName(last.input)
                /\ ConstructsNamingMissingColumn(last.input) = {})
               => last.errors = {} /\ last.input \in tables
  /\ fixture \in {"pgAdvanced", "mysqlAdvanced"}
       => /\ (last.op = "defineTable" /\ last.input.name = "order")
               => IsOrderTable(last.input) /\ last.errors = {} /\ last.input \in tables
          /\ last.op = "finalize"
               => /\ last.errors = {}
                  /\ held # NoSchema
                  /\ \E t \in held.tables : IsOrderTable(t)
                  /\ \A v \in last.result :
                       v.kind = "RedundantUniqueConstraint"
                         /\ v.subject[1] # <<"public", "order">>

\* C19 witness: loading the PostgreSQL advanced fixture, the table order has
\* just been registered without error.
OrderTableRegistered ==
  /\ fixture = "pgAdvanced"
  /\ last.op = "defineTable"
  /\ IsOrderTable(last.input)
  /\ last.errors = {}
  /\ last.input \in tables

DeferredKinds ==
  {"UnpairedRelationName", "RedundantUniqueConstraint", "SelfReferenceRequiresRelationName"}

\* The kinds a define call reports, each at the call that brings the fault.
ImmediateKinds(op) ==
  CASE op = "defineNamespace" -> {"DuplicateNamespace"}
    [] op = "defineTable" ->
         {"DuplicateTableName", "DuplicateColumnName", "UnknownColumnReference"}
    [] op = "defineForeignKey" ->
         {"ForeignKeyLengthMismatch", "ForeignKeyTargetNotUnique",
          "ForeignKeySetNullOnNonNullable"}
    [] op = "defineRelationship" -> {"AmbiguousRelationship"}

\* C20: each error comes at its step.  A define call reports only the kinds
\* of its own rules and reports them at once: a repeated column name, a
\* reference to a missing column and column lists of different lengths fail
\* the call that declares them.  No define call reports a pairing, redundancy
\* or self-reference violation; a tagged relationship is registered without
\* error whether or not its inverse is declared yet.  finalize reports these
\* three kinds, all those present in one report, and none of the kinds of
\* the define calls but the unresolved foreign-key target.  Loading the
\* PostgreSQL advanced file, ownedProjects of auth.users is declared and
\* accepted before its inverse owner of projects, and finalize finds the tag
\* paired.
ErrorsComeAtTheirStep ==
  /\ last.op \in DefineOps
       => /\ last.errors \subseteq ImmediateKinds(last.op)
          /\ last.result = {}
  /\ last.op = "defineTable"
       => /\ RepeatsColumnName(last.input) => "DuplicateColumnName" \in last.errors
          /\ ConstructsNamingMissingColumn(last.input) # {}
               => "UnknownColumnReference" \in last.errors
  /\ (last.op = "defineForeignKey"
        /\ Len(last.input.sourceColumns) # Len(last.input.targetColumns))
       => "ForeignKeyLengthMismatch" \in last.errors
  /\ (last.op = "defineRelationship" /\ last.input.relationName # NoRelationName)
       => last.errors = {} /\ last.input \in DOMAIN rels
  /\ last.op = "finalize"
       => /\ last.errors \subseteq {"SchemaValidationError"}
          /\ \A v \in last.result :
               v.kind \in DeferredKinds \cup {"ForeignKeyTargetNotUnique"}
          /\ \A r \in Unpaired(rels) : Reported("UnpairedRelationName", r)
          /\ \A r \in UntaggedSelfReferences(rels) :
               Reported("SelfReferenceRequiresRelationName", r)
          /\ \A s \in Redundancies(tables) : Reported("RedundantUniqueConstraint", s)
  /\ fixture = "pgAdvanced"
       => /\ (last.op = "defineRelationship" /\ last.input = UsersToProjects("ProjectOwner"))
               => last.errors = {} /\ ProjectsToUsers("ProjectOwner") \notin DOMAIN rels
          /\ last.op = "finalize"
               => /\ ~ReportedKind("UnpairedRelationName")
                  /\ {UsersToProjects("ProjectOwner"), ProjectsToUsers("ProjectOwner")}
                       \subseteq DOMAIN rels

\* C20 witness: loading the PostgreSQL advanced file, the relationship of
\* auth.users to projects tagged ProjectOwner has just been accepted while
\* its inverse is not declared yet.
ForwardHalfAcceptedBeforeInverse ==
  /\ fixture = "pgAdvanced"
  /\ last.op = "defineRelationship"
  /\ last.input = UsersToProjects("ProjectOwner")
  /\ last.errors = {}
  /\ last.input \in DOMAIN rels
  /\ ProjectsToUsers("ProjectOwner") \notin DOMAIN rels

\* Foreign key fk breaks none of the rules of defineForeignKey against the
\* tables registered; a target table not registered yet breaks none.
WellFormedSoFar(fk) ==
  /\ Len(fk.sourceColumns) = Len(fk.targetColumns)
  /\ \A t \in Named(tables, fk.target) : IsKeyOf(t, fk.targetColumns)
  /\ ~(SetsNull(fk) /\ SomeSourceColumnNonNullable(fk))

\* Foreign key fk is of a table to itself, or its target has a registered
\* foreign key back to its source.
ClosesCycle(fk) ==
  \/ fk.source = fk.target
  \/ \E x \in fks : x.source = fk.target /\ x.target = fk.source

\* C21: a reference is judged against its target table as finalize finds it,
\* whenever that table was declared.  defineForeignKey accepts a foreign key
\* to a table not registered yet and leaves the judgment to finalize, which
\* reports it exactly when the target is still missing or the columns are no
\* key of it; a foreign key of a table to itself or to a table that
\* references it back is accepted like any other.  Every fixture registers
\* all its tables before its first reference is resolved: user_roles is
\* declared before users in the MySQL composite-keys file, and its foreign
\* keys to users.id are accepted and are in the Schema.
ReferencesResolveInAnyOrder ==
  /\ last.op = "defineForeignKey"
       => /\ Named(tables, last.input.target) = {}
               => "ForeignKeyTargetNotUnique" \notin last.errors
          /\ WellFormedSoFar(last.input)
               => last.errors = {} /\ \E fk \in fks : fk.source = last.input.source
                                                       /\ fk.target = last.input.target
                                                       /\ fk.pairs = PairColumns(last.input.sourceColumns,
                                                                                 last.input.targetColumns)
  /\ last.op = "finalize"
       => /\ \A fk \in fks :
               Named(tables, fk.target) = {} => Reported("ForeignKeyTargetNotUnique", fk)
          /\ last.errors = {}
               => \A fk \in held.fks :
                    \E t \in Named(held.tables, fk.target) : IsKeyOf(t, fk.targetColumns)
  /\ (fixture \in Fixtures /\ last.op = "defineForeignKey")
       => \A d \in Range(FixtureFile(fixture).tables) : Named(tables, <<d.ns, d.name>>) # {}
  /\ (fixture = "mysqlComposite" /\ last.op = "defineForeignKey"
        /\ last.input.source = <<DefaultNamespace, "user_roles">>)
       => /\ \A i \in TableCalls("mysqlComposite", <<DefaultNamespace, "user_roles">>) :
               \A j \in TableCalls("mysqlComposite", <<DefaultNamespace, "users">>) : i < j
          /\ last.errors = {}
          /\ last.input.target = <<DefaultNamespace, "users">>
               => \E t \in Named(tables, last.input.target) : t.primaryKey = <<"id">>
  /\ (fixture = "mysqlComposite" /\ last.op = "finalize")
       => /\ last.errors = {}
          /\ \E fk \in held.fks :
               /\ fk.source = <<DefaultNamespace, "user_roles">>
               /\ fk.sourceColumns = <<"user_id">>
               /\ fk.target = <<DefaultNamespace, "users">>
               /\ fk.targetColumns = <<"id">>

\* C21 witness: auth.users has just been registered while a foreign key of
\* projects to it and a foreign key of projects to itself were registered
\* already.
TargetRegisteredAfterItsReference ==
  /\ last.op = "defineTable"
  /\ last.errors = {}
  /\ last.input.ns = "auth"
  /\ last.input.name = "users"
  /\ \E fk \in fks : fk.target = <<"auth", "users">> /\ fk.source = <<"public", "projects">>
  /\ \E fk \in fks : ClosesCycle(fk)

\* Column c of the registered source table of fk can hold null: it is not
\* declared NOT NULL and is no member of the table's primary key.
NullableInSource(fk, c) ==
  \A t \in Named(tables, fk.source) :
    /\ \A j \in DOMAIN t.columns : t.columns[j].name = c => ~t.columns[j].notNull
    /\ c \notin Range(t.primaryKey)

\* Foreign key fk has as many target as source columns, its target columns
\* are exactly the primary key of its registered target table, and it sets
\* null only columns that can hold null.
WellFormed(fk) ==
  /\ Len(fk.sourceColumns) = Len(fk.targetColumns)
  /\ \E t \in Named(tables, fk.target) :
       /\ t.primaryKey # <<>>
       /\ Range(t.primaryKey) = Range(fk.targetColumns)
       /\ Len(t.primaryKey) = Len(fk.targetColumns)
  /\ SetsNull(fk) => \A c \in Range(fk.sourceColumns) : NullableInSource(fk, c)

\* C22: every foreign key the fixture files declare is well-formed and is
\* accepted by defineForeignKey: its column lists have the same length, its
\* target columns are the primary key of its target table, which is the
\* single column id or, for the fk of project_tasks, (project_id, user_id) of
\* project_users, and a foreign key with a set-null action has only source
\* columns that can hold null.  When finalize is reached every registered
\* foreign key of the file is still so, and every declared one is registered.
FixtureForeignKeysAreWellFormed ==
  /\ (fixture \in Fixtures /\ last.op = "defineForeignKey")
       => /\ last.errors = {}
          /\ WellFormed(last.input)
          /\ \/ last.input.targetColumns = <<"id">>
             \/ /\ last.input.source[2] = "project_tasks"
                /\ last.input.target[2] = "project_users"
                /\ last.input.sourceColumns = <<"project_id", "user_id">>
                /\ last.input.targetColumns = <<"project_id", "user_id">>
          /\ \E fk \in fks : /\ fk.source = last.input.source
                             /\ fk.sourceColumns = last.input.sourceColumns
                             /\ fk.target = last.input.target
                             /\ fk.targetColumns = last.input.targetColumns
  /\ (fixture \in Fixtures /\ last.op = "finalize")
       => /\ \A fk \in fks : WellFormed(fk)
          /\ \A d \in Range(FixtureFile(fixture).tables) :
               \A i \in DOMAIN d.foreignKeys :
                 \E fk \in fks : /\ fk.source = d.foreignKeys[i].source
                                 /\ fk.sourceColumns = d.foreignKeys[i].sourceColumns
                                 /\ fk.target = d.foreignKeys[i].target
                                 /\ fk.targetColumns = d.foreignKeys[i].targetColumns
                                 /\ fk.onDelete = d.foreignKeys[i].onDelete
                                 /\ fk.onUpdate = d.foreignKeys[i].onUpdate
          /\ "ForeignKeyTargetNotUnique" \notin last.errors

\* C22 witness: the set-null foreign key of public.projects.manager_id to
\* auth.users.id of an advanced file has been accepted.
ManagerForeignKeyAccepted ==
  /\ fixture \in {"pgAdvanced", "mysqlAdvanced"}
  /\ last.op = "defineForeignKey"
  /\ last.errors = {}
  /\ last.input.source = <<"public", "projects">>
  /\ last.input.sourceColumns = <<"manager_id">>
  /\ last.input.onDelete = "set null"
  /\ WellFormed(last.input)

\* The relation declarations of fixture file f that name fields and
\* references, the 'one' side of a relationship.
OneRelations(f) ==
  {d \in Range(Flatten(FixtureFile(f).relations)) : d.fields # <<>>}

\* A registered foreign key runs from exactly the fields of relation
\* declaration d to exactly its references in its target table.
DerivedFromForeignKey(d) ==
  \E fk \in fks : /\ fk.source = d.from
                  /\ fk.sourceColumns = d.fields
                  /\ fk.target = d.to
                  /\ fk.targetColumns = d.references

\* C23: every relationship a fixture file declares with fields and
\* references is derived from a declared foreign key: once the file's foreign
\* keys are registered, its source table has a foreign key from exactly
\* those fields to exactly those references of its target table.
OneRelationsAreDerivedFromForeignKeys ==
  (fixture \in Fixtures /\ last.op \in {"defineRelationship", "finalize"})
    => \A d \in OneRelations(fixture) : DerivedFromForeignKey(d)

\* The number of registered untagged relationships of a 'one' cardinality
\* that run the other way round than relationship r.
UntaggedInverses(r) ==
  LET S == {x \in BagToSet(rels) : /\ x.from = r.to
                                   /\ x.to = r.from
                                   /\ x.relationName = NoRelationName
                                   /\ x.cardinality \in {"many-to-one", "one-to-one"}}
      sum[T \in SUBSET S] ==
        IF T = {} THEN 0 ELSE LET x == CHOOSE y \in T : TRUE
                              IN  CopiesIn(x, rels) + sum[T \ {x}]
  IN  sum[S]

\* C24: when an advanced fixture file has registered its relationships,
\* every untagged one-to-many relationship from a table A to a table B has
\* exactly one untagged 'one' relationship from B to A, its inverse.
UntaggedManyHasOneInverse ==
  (fixture \in {"pgAdvanced", "mysqlAdvanced"} /\ last.op = "finalize")
    => \A r \in BagToSet(rels) :
         (r.cardinality = "one-to-many" /\ r.relationName = NoRelationName)
           => UntaggedInverses(r) = 1

\* The tables only one dialect's advanced file declares.
DialectSpecific ==
  {<<"public", "very_long_table_name_that_is_near_the_postgresql_limit_of_63">>,
   <<"public", "very_long_table_name_that_is_near_the_mysql_limit_of_64">>}

\* The foreign keys fs of the table of key k: columns, target and actions.
ReferencesOf(fs, k) ==
  {[sourceColumns |-> fk.sourceColumns, target |-> fk.target, targetColumns |-> fk.targetColumns,
    onDelete |-> fk.onDelete, onUpdate |-> fk.onUpdate] : fk \in {x \in fs : x.source = k}}

\* The schema model of tables ts with foreign keys fs, the dialect-specific
\* tables left out: per table its namespace and name, its column names in
\* order, its primary-key columns and its foreign keys.
ModelOf(ts, fs) ==
  {[ns |-> t.ns, name |-> t.name,
    columns |-> [i \in DOMAIN t.columns |-> t.columns[i].name],
    primaryKey |-> t.primaryKey,
    foreignKeys |-> ReferencesOf(fs, <<t.ns, t.name>>)] :
     t \in {x \in ts : <<x.ns, x.name>> \notin DialectSpecific}}

\* The schema model fixture file f declares.
DeclaredModel(f) ==
  LET D == FixtureFile(f) IN
  ModelOf(Range(D.tables), UNION {Range(d.foreignKeys) : d \in Range(D.tables)})

\* How many relation declarations of fixture file f are relationship r.
DeclaredCopies(f, r) ==
  LET ds == Flatten(FixtureFile(f).relations) IN
  Cardinality({i \in DOMAIN ds : /\ ds[i].from = r.from
                                 /\ ds[i].to = r.to
                                 /\ ds[i].cardinality = r.cardinality
                                 /\ ds[i].relationName = r.relationName})

\* The advanced file of the other dialect.
OtherDialect(f) == IF f = "pgAdvanced" THEN "mysqlAdvanced" ELSE "pgAdvanced"

\* C25: the PostgreSQL and the MySQL advanced file describe the same schema
\* model.  The Schema finalize returns for either file has, apart from the
\* dialect-specific long-named table, the tables the other file declares:
\* the same namespaces and (namespace, name) pairs, the same column names,
\* the same primary-key columns, the same foreign keys with the same targets
\* and on-delete and on-update actions; and it has the relationships the
\* other file declares, with the same cardinalities and tags, as many times.
AdvancedFilesDescribeOneModel ==
  (fixture \in {"pgAdvanced", "mysqlAdvanced"} /\ last.op = "finalize")
    => LET other == OtherDialect(fixture) IN
       /\ last.errors = {}
       /\ held.namespaces = {DefaultNamespace} \cup Range(FixtureFile(other).namespaces)
       /\ ModelOf(held.tables, held.fks) = DeclaredModel(other)
       /\ Cardinality(held.tables) = Len(FixtureFile(other).tables)
       /\ \E t \in held.tables : <<t.ns, t.name>> \in DialectSpecific
       /\ \A r \in BagToSet(held.rels) : CopiesIn(r, held.rels) = DeclaredCopies(other, r)
       /\ BagCardinality(held.rels) = Len(Flatten(FixtureFile(other).relations))

\* C25 witness: finalize has returned the Schema of the MySQL advanced file,
\* which holds audit_logs in the namespace admin and the MySQL long-named
\* table.
MySqlAdvancedSchemaReturned ==
  /\ fixture = "mysqlAdvanced"
  /\ last.op = "finalize"
  /\ last.errors = {}
  /\ \E t \in held.tables : t.ns = "admin" /\ t.name = "audit_logs"
  /\ \E t \in held.tables : t.name = "very_long_table_name_that_is_near_the_mysql_limit_of_64"
  /\ ModelOf(held.tables, held.fks) = DeclaredModel("pgAdvanced")

\* What the builder has registered.
registry == <<namespaces, tables, fks, rels>>

\* C26: a define call that fails leaves the registered namespaces, tables,
\* foreign keys and relationships exactly as they were, and one that
\* succeeds adds its own piece and nothing else, so finalize validates, and
\* returns in the Schema, the successfully defined pieces only.  Loading the
\* PostgreSQL composite-keys file, the second declaration of user_roles and
\* of six more tables is refused and changes nothing: finalize sees 14
\* tables of the 21 declared, the one foreign key and 11 of the 13
\* relationships.
FailedDefineChangesNothing ==
  [][/\ (last.op = "none" /\ last'.op \in DefineOps /\ last'.errors # {})
          => UNCHANGED registry
     /\ (last.op = "none" /\ last'.op \in DefineOps /\ last'.errors = {})
          => /\ registry' # registry \/ last'.op = "defineForeignKey"
             /\ namespaces \subseteq namespaces'
             /\ namespaces' \ namespaces \subseteq
                  IF last'.op = "defineNamespace" THEN {last'.input.ns} ELSE {}
             /\ tables \subseteq tables'
             /\ tables' \ tables \subseteq IF last'.op = "defineTable" THEN {last'.input} ELSE {}
             /\ fks \subseteq fks'
             /\ \A fk \in fks' \ fks :
                  /\ last'.op = "defineForeignKey"
                  /\ fk.source = last'.input.source
                  /\ fk.sourceColumns = last'.input.sourceColumns
                  /\ fk.target = last'.input.target
                  /\ fk.targetColumns = last'.input.targetColumns
             /\ rels' = IF last'.op = "defineRelationship"
                          THEN rels (+) SetToBag({last'.input}) ELSE rels
     /\ (last.op = "none" /\ last'.op = "finalize")
          => /\ UNCHANGED registry
             /\ \A v \in last'.result :
                  CASE v.kind = "ForeignKeyTargetNotUnique" -> v.subject \in fks
                    [] v.kind \in {"UnpairedRelationName", "SelfReferenceRequiresRelationName"} ->
                         v.subject \in BagToSet(rels)
                    [] v.kind = "UnknownColumnReference" ->
                         \E t \in tables : v.subject = <<t.ns, t.name>>
                    [] v.kind = "RedundantUniqueConstraint" ->
                         \E t \in tables : v.subject[1] = <<t.ns, t.name>>
             /\ last'.errors = {} => held' = [namespaces |-> namespaces, tables |-> tables,
                                               fks |-> fks, rels |-> rels]
     /\ (fixture = "pgComposite" /\ last.op = "none" /\ last'.op = "defineTable"
           /\ \E t \in tables : t.name = last'.input.name)
          => /\ last'.input.name \in TwiceDeclared
             /\ last'.errors = {"DuplicateTableName"}
             /\ UNCHANGED registry
     /\ (fixture = "pgComposite" /\ last.op = "none" /\ last'.op = "finalize")
          => /\ Len(FixtureFile("pgComposite").tables) = 21
             /\ Cardinality(tables) = 14
             /\ Cardinality(fks) = 1
             /\ Len(Flatten(FixtureFile("pgComposite").relations)) = 13
             /\ BagCardinality(rels) = 11
             /\ \E t \in tables : /\ t.name = "user_roles"
                                  /\ t.primaryKey = <<"user_id", "role_id">>]_vars

\* C26 witness: loading the PostgreSQL composite-keys file, the second
\* declaration of user_roles has just been refused while the first stays
\* registered, no table declared after it being registered yet.
SecondUserRolesDeclarationRefused ==
  /\ fixture = "pgComposite"
  /\ last.op = "defineTable"
  /\ last.input.name = "user_roles"
  /\ last.errors = {"DuplicateTableName"}
  /\ \E t \in tables : t.name = "user_roles"
  /\ Cardinality(tables) = 7
=============================================================================
